---- MODULE Spec2Model ----
(***************************************************************************)
(* Flip-dot display driver (src/main/flip_dot.c): the single-pixel         *)
(* addressing protocol and the frame diff / sweep engine.                  *)
(*                                                                         *)
(* A frame or the mirror is a 13 x 28 grid of bytes holding 0 or 1; it is  *)
(* represented by the set of coordinates <<row, col>> whose byte is 1.     *)
(* Coordinates are 0-based as in the C code; sequences are 1-based, so the *)
(* C entry flip_list[k] is flip_list[k + 1] here.                          *)
(***************************************************************************)
EXTENDS Integers, Sequences, FiniteSets, TLC

(***************************************************************************)
(* Program constants                                                       *)
(***************************************************************************)
DISPLAY_WIDTH == 28

DISPLAY_HEIGHT == 13

GROUP_SIZE == 7

PIN_UNUSED == 255

UINT16 == 65536

UINT8 == 256

(***************************************************************************)
(* Bounds of the exploration                                               *)
(***************************************************************************)
\* number of probe cells a frame handed to the driver may light
WinSize == 3

\* length of the garbage flip list an out-of-bounds shuffle may leave behind
MaxGarbage == 1

\* cells the explored frames are built from; frames are 0 everywhere else
ProbeCells ==
  << <<0, 10>>, <<8, 10>>, <<12, 0>>, <<1, 0>>, <<0, 0>>, <<1, 1>> >>

WindowCells == { ProbeCells[k] : k \in 1..WinSize }

WindowFrames == SUBSET WindowCells

\* coordinates handed to flip_dot_set_pixel: the probe cells and the two
\* boundary coordinates (row = DISPLAY_HEIGHT, col = DISPLAY_WIDTH)
OutOfRangeProbes == { <<DISPLAY_HEIGHT, 0>>, <<0, DISPLAY_WIDTH>> }

SetPixelArgs == WindowCells \cup OutOfRangeProbes

\* value of prev_frame when the preceding call was not such an update:
\* not a frame, since its cell lies outside the grid
NoFrame == { << DISPLAY_HEIGHT, DISPLAY_WIDTH >> }

(***************************************************************************)
(* Types and small helpers                                                 *)
(***************************************************************************)
sweep_mode_t == { "SWEEP_ROW", "SWEEP_COL", "SWEEP_DIAG", "SWEEP_RANDOM" }

Pins ==
  { "ROW_A0", "ROW_A1", "ROW_A2",
    "COL_A0", "COL_A1", "COL_A2", "COL_A3",
    "1A0", "1A1", "2A0", "2A1", "1E", "2E" }

\* is_inverted of each gpio_pin_t bound in flip_dot_init
PinInverted(pin) == pin = "COL_A3"

\* pin number of the A3 line of each 74HC4514 (0xFF: not bound)
PinA3_unbound(axis) == PIN_UNUSED

PinA3(axis) == IF axis = "ROW" THEN PIN_UNUSED ELSE 19

Bit(b) == IF b THEN 1 ELSE 0

InRange(row, col) == row < DISPLAY_HEIGHT /\ col < DISPLAY_WIDTH

\* data[r][c] of a 0/1 frame
Pixel(frame, r, c) == Bit(<<r, c>> \in frame)

SymDiff(A, B) == (A \ B) \cup (B \ A)

Swap(l, a, b) == [l EXCEPT ![a] = l[b], ![b] = l[a]]

(***************************************************************************)
(* gpio_write and the decoders                                             *)
(***************************************************************************)
\* physical level driven by gpio_write(pin, value, is_inverted)
gpio_write_not_inverting(pin, value, is_inverted) == << pin, value >>

gpio_write(pin, value, is_inverted) ==
  << pin, IF is_inverted THEN 1 - value ELSE value >>

\* binary_arr of decimal_to_bin(number, bits, binary_arr), most significant
\* bit first
decimal_to_bin(number, bits) ==
  [ k \in 1..bits |-> (number \div (2 ^ (bits - k))) % 2 ]

\* the gpio writes of demux_74HC4514_set_output, in program order
demux_74HC4514_set_output_plain_A3(axis, output_pos) ==
  LET binary == decimal_to_bin(output_pos % 256, 4)
      A(n)   == axis \o "_A" \o n
  IN  << gpio_write(A("0"), binary[4], PinInverted(A("0"))),
         gpio_write(A("1"), binary[3], PinInverted(A("1"))),
         gpio_write(A("2"), binary[2], PinInverted(A("2"))) >>
      \o (IF PinA3(axis) # PIN_UNUSED
            THEN << gpio_write(A("3"), binary[1], PinInverted(A("3"))) >>
            ELSE << >>)

demux_74HC4514_set_output(axis, output_pos) ==
  LET binary == decimal_to_bin(output_pos % 256, 4)
      A(n)   == axis \o "_A" \o n
  IN  << gpio_write(A("0"), binary[4], PinInverted(A("0"))),
         gpio_write(A("1"), binary[3], PinInverted(A("1"))),
         gpio_write(A("2"), binary[2], PinInverted(A("2"))) >>
      \o (IF PinA3(axis) # PIN_UNUSED
            THEN << gpio_write(A("3"), 1 - binary[1], PinInverted(A("3"))) >>
            ELSE << >>)

\* the two group-select writes of demux_74HC139_set_row_output
demux_74HC139_set_row_group(row_grp) ==
  LET binary == decimal_to_bin(row_grp, 2)
  IN  << gpio_write("1A0", binary[2], PinInverted("1A0")),
         gpio_write("1A1", binary[1], PinInverted("1A1")) >>

\* the two group-select writes of demux_74HC139_set_col_output
demux_74HC139_set_col_group(col_grp) ==
  LET binary == decimal_to_bin(col_grp, 2)
  IN  << gpio_write("2A0", binary[2], PinInverted("2A0")),
         gpio_write("2A1", binary[1], PinInverted("2A1")) >>

\* group and offset of a coordinate, as flip_dot_set_pixel splits it
row_grp(row) == row \div GROUP_SIZE

row_grp_pixel_mod8(row) == row % 8

row_grp_pixel(row) == row % GROUP_SIZE

col_grp(col) == col \div GROUP_SIZE

col_grp_pixel(col) == col % GROUP_SIZE

\* output position selected on either axis for an offset inside the group
OutputPos_set_polarity(grp_pixel, value) == grp_pixel + 1 + (Bit(value) * 8)

OutputPos(grp_pixel, value) == grp_pixel + 1 + (Bit(~value) * 8)

\* the levels after a sequence of gpio writes
RECURSIVE ApplyWrites(_, _)
ApplyWrites(lv, writes) ==
  IF writes = << >> THEN lv
  ELSE ApplyWrites([lv EXCEPT ![Head(writes)[1]] = Head(writes)[2]],
                   Tail(writes))

(***************************************************************************)
(* Diff and sweep order of flip_dot_update_display                         *)
(***************************************************************************)
\* number of cells the nested loops (r outside, c inside) visit before they
\* reach cell
ScanIndex_colmajor(cell) == cell[2] * DISPLAY_HEIGHT + cell[1]

ScanIndex(cell) == cell[1] * DISPLAY_WIDTH + cell[2]

\* the cells for which data[r][c] != display->pixel_state[r][c]
DiffCells(frame, mirror) ==
  { cell \in frame \cup mirror :
      Pixel(frame, cell[1], cell[2]) # Pixel(mirror, cell[1], cell[2]) }

\* flip_list after the diff loops: every differing cell is appended when the
\* scan reaches it, so entry k is the differing cell with k - 1 differing
\* cells before it in scan order
DiffList(frame, mirror) ==
  LET D == DiffCells(frame, mirror)
  IN  [ k \in 1..Cardinality(D) |->
          CHOOSE cell \in D :
            Cardinality({ e \in D : ScanIndex(e) < ScanIndex(cell) }) = k - 1 ]

\* the comparison guarding the swap of the SWEEP_COL loops
ColSwapNeeded_reversed(a, b) == a[2] < b[2]

ColSwapNeeded(a, b) == a[2] > b[2]

\* inner loop: for (j = i + 1; j < flip_count; j++)
RECURSIVE SortInner(_, _, _)
SortInner(l, i, j) ==
  IF j > Len(l) THEN l
  ELSE SortInner(IF ColSwapNeeded(l[i], l[j]) THEN Swap(l, i, j) ELSE l,
                 i, j + 1)

\* outer loop: for (i = 0; i < flip_count; i++)
RECURSIVE SortOuter(_, _)
SortOuter(l, i) ==
  IF i > Len(l) THEN l ELSE SortOuter(SortInner(l, i, i + 1), i + 1)

SortByCol(l) == SortOuter(l, 1)

(***************************************************************************)
(* State                                                                   *)
(***************************************************************************)
VARIABLES
  sweep_mode,    \* display->sweep_mode
  pixel_state,   \* display->pixel_state, the mirror
  level,         \* physical level of every output pin
  pc,            \* position of the driver's caller / current function
  op,            \* public operation being executed
  sp,            \* arguments of the running flip_dot_set_pixel
  ret_pc,        \* where the running flip_dot_set_pixel returns to
  data,          \* the frame buffer behind the data pointer
  flip_list,     \* initialised entries of flip_list (flip_count = Len)
  flip_count,    \* uint16_t flip_count
  idx,           \* loop counter of the flip loop
  sh_i,          \* uint16_t i of the SWEEP_RANDOM loop
  F,             \* history: the frame as handed to the running update
  entry_state,   \* history: the mirror when the public call was entered
  oob_store,     \* history: the running call wrote outside its array
  sig_log,       \* history: gpio writes and mirror store of one set_pixel
  pulse_log,     \* history: enable pulses of the running public call
  prev_frame,    \* history: frame of the update that completed just before
                 \* (without a write outside its arrays), else NoFrame
  cfg_err,       \* history: a gpio_config call of flip_dot_init failed
  rect,          \* arguments and loop counters r, c of the running
                 \* flip_dot_clear_display or flip_dot_set_rows_cols
  unit,          \* the last direct call of gpio_write or of
                 \* demux_74HC4514_set_output
  game,          \* the snake_game_t of snake_game_run_interactive
  task           \* position and locals of the two execution contexts of
                 \* the running program (game loop, receive callback)

vars ==
  << sweep_mode, pixel_state, level, pc, op, sp, ret_pc, data,
     flip_list, flip_count, idx, sh_i, F, entry_state, oob_store, sig_log,
     pulse_log, prev_frame, cfg_err, rect, unit, game, task >>

NoArgs == [row |-> 0, col |-> 0, value |-> FALSE]

\* rect when neither flip_dot_clear_display nor flip_dot_set_rows_cols runs
NoRect ==
  [row_start |-> 0, row_end |-> 0, col_start |-> 0, col_end |-> 0,
   pixel_value |-> FALSE, r |-> 0, c |-> 0]

\* unit when no function has been called directly
NoUnit == [fn |-> "none"]

\* game and task before snake_game_run_interactive is entered
NoGame == [state |-> "none"]

NoTask == [loop |-> [pc |-> "none"], wifi |-> [pc |-> "none"]]

\* the two enable writes that end flip_dot_init: channel 1 (row output) is
\* enabled, channel 2 is driven low
InitEnableWrites_none ==
  << gpio_write("1E", 0, PinInverted("1E")),
     gpio_write("2E", 0, PinInverted("2E")) >>

InitEnableWrites ==
  << gpio_write("1E", 1, PinInverted("1E")),
     gpio_write("2E", 0, PinInverted("2E")) >>

\* every output is low when the controller leaves reset
ResetLevel == [p \in Pins |-> 0]

\* the state flip_dot_init leaves behind
Init ==
  /\ sweep_mode \in sweep_mode_t
  /\ pixel_state = {}
  /\ level = ApplyWrites(ResetLevel, InitEnableWrites)
  /\ pc = "idle"
  /\ op = "none"
  /\ sp = NoArgs
  /\ ret_pc = "idle"
  /\ data = {}
  /\ flip_list = << >>
  /\ flip_count = 0
  /\ idx = 0
  /\ sh_i = 0
  /\ F = {}
  /\ entry_state = {}
  /\ oob_store = FALSE
  /\ sig_log = << >>
  /\ pulse_log = << >>
  /\ prev_frame = NoFrame
  /\ cfg_err = FALSE
  /\ rect = NoRect
  /\ unit = NoUnit
  /\ game = NoGame
  /\ task = NoTask

(***************************************************************************)
(* flip_dot_set_pixel                                                      *)
(***************************************************************************)
\* order of the statements of flip_dot_set_pixel
SetPixelSteps_early_enable ==
  << "sp_row_grp", "sp_row_pos", "sp_col_grp", "sp_enable", "sp_col_pos",
     "sp_disable", "sp_store" >>

SetPixelSteps ==
  << "sp_row_grp", "sp_row_pos", "sp_col_grp", "sp_col_pos", "sp_enable",
     "sp_disable", "sp_store" >>

StepIndex(p) == CHOOSE k \in 1..Len(SetPixelSteps) : SetPixelSteps[k] = p

\* the statement after p, or the caller's continuation after the last one
AfterStep(p) ==
  IF StepIndex(p) < Len(SetPixelSteps)
    THEN SetPixelSteps[StepIndex(p) + 1] ELSE ret_pc

\* a set_pixel step that only writes output pins
PinStep(step, writes) ==
  /\ pc = step
  /\ level' = ApplyWrites(level, writes)
  /\ sig_log' = sig_log \o writes
  /\ pc' = AfterStep(step)
  /\ UNCHANGED << sweep_mode, pixel_state, op, sp, ret_pc,
                  data, flip_list, flip_count, idx, sh_i, F, entry_state,
                  oob_store, prev_frame >>
  /\ UNCHANGED << cfg_err, rect, unit >>
  /\ UNCHANGED << game, task >>

\* the caller invokes flip_dot_set_pixel(display, row, col, value)
CallSetPixel ==
  /\ pc = "idle"
  /\ \E cell \in SetPixelArgs, value \in BOOLEAN :
       sp' = [row |-> cell[1], col |-> cell[2], value |-> value]
  /\ op' = "set_pixel"
  /\ ret_pc' = "sp_ret"
  /\ pc' = SetPixelSteps[1]
  /\ entry_state' = pixel_state
  /\ oob_store' = FALSE
  /\ sig_log' = << >>
  /\ pulse_log' = << >>
  /\ UNCHANGED << sweep_mode, pixel_state, level, data,
                  flip_list, flip_count, idx, sh_i, F, prev_frame >>
  /\ UNCHANGED << cfg_err, rect, unit >>
  /\ UNCHANGED << game, task >>

\* demux_74HC139_set_row_output: group select lines 1A0, 1A1
SpRowGrp ==
  /\ PinStep("sp_row_grp", demux_74HC139_set_row_group(row_grp(sp.row)))
  /\ UNCHANGED pulse_log

\* demux_74HC139_set_row_output: row position decoder
SpRowPos ==
  /\ PinStep("sp_row_pos",
             demux_74HC4514_set_output(
               "ROW", OutputPos(row_grp_pixel(sp.row), sp.value)))
  /\ UNCHANGED pulse_log

\* demux_74HC139_set_col_output: group select lines 2A0, 2A1
SpColGrp ==
  /\ PinStep("sp_col_grp", demux_74HC139_set_col_group(col_grp(sp.col)))
  /\ UNCHANGED pulse_log

\* demux_74HC139_set_col_output: column position decoder
SpColPos ==
  /\ PinStep("sp_col_pos",
             demux_74HC4514_set_output(
               "COL", OutputPos(col_grp_pixel(sp.col), sp.value)))
  /\ UNCHANGED pulse_log

\* gpio_write(pin_2E, true, ...), followed by delay_us(flip_time_us)
SpEnable ==
  /\ PinStep("sp_enable", << gpio_write("2E", 1, PinInverted("2E")) >>)
  /\ UNCHANGED pulse_log

\* pulses of one call the log records: as many as a call that visits every
\* cell of the display once issues; a call that never returns issues more
MaxPulseLog == DISPLAY_HEIGHT * DISPLAY_WIDTH

\* gpio_write(pin_2E, false, ...), followed by delay_us(1000); a pulse is
\* complete when the line falls after having been raised
SpDisable_stays_high ==
  /\ PinStep("sp_disable", << gpio_write("2E", 1, PinInverted("2E")) >>)
  /\ pulse_log' = IF level["2E"] = 1 /\ Len(pulse_log) < MaxPulseLog
                    THEN Append(pulse_log, << sp.row, sp.col, sp.value >>)
                    ELSE pulse_log

SpDisable ==
  /\ PinStep("sp_disable", << gpio_write("2E", 0, PinInverted("2E")) >>)
  /\ pulse_log' = IF level["2E"] = 1 /\ Len(pulse_log) < MaxPulseLog
                    THEN Append(pulse_log, << sp.row, sp.col, sp.value >>)
                    ELSE pulse_log

\* display->pixel_state[row][col] = value; the array is flat in memory, so
\* the byte written is the one at offset row * DISPLAY_WIDTH + col, and a
\* store past the last byte of the array lands outside the display object
SpStore ==
  /\ pc = "sp_store"
  /\ LET offset == sp.row * DISPLAY_WIDTH + sp.col
         cell   == << offset \div DISPLAY_WIDTH, offset % DISPLAY_WIDTH >>
     IN  IF offset < DISPLAY_HEIGHT * DISPLAY_WIDTH
           THEN /\ pixel_state' = IF sp.value THEN pixel_state \cup {cell}
                                              ELSE pixel_state \ {cell}
                /\ UNCHANGED oob_store
           ELSE /\ oob_store' = TRUE
                /\ UNCHANGED pixel_state
  /\ sig_log' = Append(sig_log, << "pixel_state", Bit(sp.value) >>)
  /\ pc' = AfterStep("sp_store")
  /\ idx' = IF ret_pc = "ud_flip" THEN idx + 1 ELSE idx
  /\ rect' = IF ret_pc \in { "cd_loop", "fr_loop" }
               THEN [rect EXCEPT !.c = (@ + 1) % UINT8] ELSE rect
  /\ UNCHANGED << sweep_mode, level, op, sp, ret_pc, data, flip_list,
                  flip_count, sh_i, F, entry_state, pulse_log,
                  prev_frame, cfg_err, unit >>
  /\ UNCHANGED << game, task >>

(***************************************************************************)
(* flip_dot_update_display                                                 *)
(***************************************************************************)
\* the caller invokes flip_dot_update_display(display, frame); the diff loops
\* fill flip_list
CallUpdate ==
  /\ pc = "idle"
  /\ \E frame \in WindowFrames :
       /\ data' = frame
       /\ F' = frame
       /\ flip_list' = DiffList(frame, pixel_state)
  /\ flip_count' = Len(flip_list')
  /\ op' = "update"
  /\ pc' = "ud_sweep"
  /\ entry_state' = pixel_state
  /\ oob_store' = FALSE
  /\ sig_log' = << >>
  /\ pulse_log' = << >>
  /\ UNCHANGED << sweep_mode, pixel_state, level, sp, ret_pc, idx, sh_i,
                  prev_frame >>
  /\ UNCHANGED << cfg_err, rect, unit >>
  /\ UNCHANGED << game, task >>

\* switch (display->sweep_mode); the SWEEP_RANDOM case initialises its
\* 16-bit loop counter with flip_count - 1
UdSweep ==
  /\ pc = "ud_sweep"
  /\ CASE sweep_mode = "SWEEP_COL" ->
            /\ flip_list' = SortByCol(flip_list)
            /\ pc' = "ud_flip"
            /\ UNCHANGED sh_i
       [] sweep_mode = "SWEEP_RANDOM" ->
            /\ sh_i' = (flip_count - 1) % UINT16
            /\ pc' = "ud_shuffle"
            /\ UNCHANGED flip_list
       [] OTHER ->
            /\ pc' = "ud_flip"
            /\ UNCHANGED << flip_list, sh_i >>
  /\ idx' = 0
  /\ UNCHANGED << sweep_mode, pixel_state, level, op, sp,
                  ret_pc, data, flip_count, F, entry_state, oob_store,
                  sig_log, pulse_log, prev_frame >>
  /\ UNCHANGED << cfg_err, rect, unit >>
  /\ UNCHANGED << game, task >>

\* one iteration of the shuffle whose index i addresses an initialised
\* entry: j = rand() % (i + 1), swap entries i and j
UdShuffleSwap ==
  /\ pc = "ud_shuffle"
  /\ sh_i > 0
  /\ sh_i < flip_count
  /\ \E j \in 0..sh_i : flip_list' = Swap(flip_list, sh_i + 1, j + 1)
  /\ sh_i' = sh_i - 1
  /\ UNCHANGED << sweep_mode, pixel_state, level, pc, op, sp,
                  ret_pc, data, flip_count, idx, F, entry_state, oob_store,
                  sig_log, pulse_log, prev_frame >>
  /\ UNCHANGED << cfg_err, rect, unit >>
  /\ UNCHANGED << game, task >>

\* the shuffle loop ends
UdShuffleDone ==
  /\ pc = "ud_shuffle"
  /\ sh_i = 0
  /\ pc' = "ud_flip"
  /\ UNCHANGED << sweep_mode, pixel_state, level, op, sp,
                  ret_pc, data, flip_list, flip_count, idx, sh_i, F,
                  entry_state, oob_store, sig_log, pulse_log, prev_frame >>
  /\ UNCHANGED << cfg_err, rect, unit >>
  /\ UNCHANGED << game, task >>

\* the shuffle index is outside the initialised entries (flip_count = 0
\* makes i start at 65535): the swaps run over the stack above flip_list,
\* which holds the caller's frame buffer and the saved registers.  The
\* behaviour is undefined; the task either faults ...
UdShuffleFault ==
  /\ pc = "ud_shuffle"
  /\ sh_i > 0
  /\ sh_i >= flip_count
  /\ pc' = "crashed"
  /\ oob_store' = TRUE
  /\ UNCHANGED << sweep_mode, pixel_state, level, op, sp, ret_pc, data,
                  flip_list, flip_count, idx, sh_i, F, entry_state,
                  sig_log, pulse_log, prev_frame >>
  /\ UNCHANGED << cfg_err, rect, unit >>
  /\ UNCHANGED << game, task >>

\* ... or carries on with whatever the permuted stack now holds in
\* flip_count and flip_list ...
UdShuffleGarbage ==
  /\ pc = "ud_shuffle"
  /\ sh_i > 0
  /\ sh_i >= flip_count
  /\ \E n \in 0..MaxGarbage :
       /\ flip_count' = n
       /\ flip_list' \in [1..n -> WindowCells]
  /\ oob_store' = TRUE
  /\ sh_i' = 0
  /\ pc' = "ud_flip"
  /\ UNCHANGED << sweep_mode, pixel_state, level, op, sp, ret_pc, data, idx,
                  F, entry_state, sig_log, pulse_log, prev_frame >>
  /\ UNCHANGED << cfg_err, rect, unit >>
  /\ UNCHANGED << game, task >>

\* ... or in the caller's frame buffer, which data points to
UdShuffleClobber ==
  /\ pc = "ud_shuffle"
  /\ sh_i > 0
  /\ sh_i >= flip_count
  /\ data' \in WindowFrames \ { data }
  /\ oob_store' = TRUE
  /\ sh_i' = 0
  /\ pc' = "ud_flip"
  /\ UNCHANGED << sweep_mode, pixel_state, level, op, sp, ret_pc, flip_list,
                  flip_count, idx, F, entry_state, sig_log, pulse_log,
                  prev_frame >>
  /\ UNCHANGED << cfg_err, rect, unit >>
  /\ UNCHANGED << game, task >>

\* flip loop: flip_dot_set_pixel(display, r, c, data[r][c])
UdFlipCall ==
  /\ pc = "ud_flip"
  /\ idx < flip_count
  /\ LET r == flip_list[idx + 1][1]
         c == flip_list[idx + 1][2]
     IN  sp' = [row |-> r, col |-> c, value |-> Pixel(data, r, c) # 0]
  /\ ret_pc' = "ud_flip"
  /\ pc' = SetPixelSteps[1]
  /\ sig_log' = << >>
  /\ UNCHANGED << sweep_mode, pixel_state, level, op, data,
                  flip_list, flip_count, idx, sh_i, F, entry_state,
                  oob_store, pulse_log, prev_frame >>
  /\ UNCHANGED << cfg_err, rect, unit >>
  /\ UNCHANGED << game, task >>

\* flip loop finished
UdFlipDone ==
  /\ pc = "ud_flip"
  /\ idx >= flip_count
  /\ pc' = "ud_memcpy"
  /\ UNCHANGED << sweep_mode, pixel_state, level, op, sp,
                  ret_pc, data, flip_list, flip_count, idx, sh_i, F,
                  entry_state, oob_store, sig_log, pulse_log, prev_frame >>
  /\ UNCHANGED << cfg_err, rect, unit >>
  /\ UNCHANGED << game, task >>

\* memcpy(display->pixel_state, data, sizeof(display->pixel_state))
UdMemcpy ==
  /\ pc = "ud_memcpy"
  /\ pixel_state' = data
  /\ pc' = "ud_ret"
  /\ UNCHANGED << sweep_mode, level, op, sp, ret_pc, data,
                  flip_list, flip_count, idx, sh_i, F, entry_state,
                  oob_store, sig_log, pulse_log, prev_frame >>
  /\ UNCHANGED << cfg_err, rect, unit >>
  /\ UNCHANGED << game, task >>

\* the public call returns: its locals and arguments are gone
Return ==
  /\ pc \in { "sp_ret", "ud_ret" }
  /\ pc' = "idle"
  /\ prev_frame' = IF op = "update" /\ ~oob_store THEN F ELSE NoFrame
  /\ op' = "none"
  /\ sp' = NoArgs
  /\ ret_pc' = "idle"
  /\ data' = {}
  /\ flip_list' = << >>
  /\ flip_count' = 0
  /\ idx' = 0
  /\ sh_i' = 0
  /\ F' = {}
  /\ entry_state' = {}
  /\ oob_store' = FALSE
  /\ sig_log' = << >>
  /\ pulse_log' = << >>
  /\ UNCHANGED << sweep_mode, pixel_state, level >>
  /\ UNCHANGED << cfg_err, rect, unit >>
  /\ UNCHANGED << game, task >>

Next ==
  \/ CallSetPixel
  \/ SpRowGrp
  \/ SpRowPos
  \/ SpColGrp
  \/ SpColPos
  \/ SpEnable
  \/ SpDisable
  \/ SpStore
  \/ CallUpdate
  \/ UdSweep
  \/ UdShuffleSwap
  \/ UdShuffleDone
  \/ UdShuffleFault
  \/ UdShuffleGarbage
  \/ UdShuffleClobber
  \/ UdFlipCall
  \/ UdFlipDone
  \/ UdMemcpy
  \/ Return

Spec == Init /\ [][Next]_vars

(***************************************************************************)
(* flip_dot_clear_display and flip_dot_set_rows_cols                       *)
(***************************************************************************)
\* loop conditions of flip_dot_clear_display
ClearRowCond_short(r) == r < DISPLAY_HEIGHT - 1

ClearRowCond(r) == r < DISPLAY_HEIGHT

ClearColCond_short(c) == c < DISPLAY_WIDTH - 1

ClearColCond(c) == c < DISPLAY_WIDTH

\* loop conditions of flip_dot_set_rows_cols
FillRowCond(r, row_end) == r <= row_end

FillColCond_exclusive(c, col_end) == c < col_end

FillColCond(c, col_end) == c <= col_end

\* rectangles handed to flip_dot_set_rows_cols: the whole display, a block
\* around probe cell <<0, 10>>, one cell, and the last row
FillArgs ==
  { [row_start |-> 0, row_end |-> DISPLAY_HEIGHT - 1,
     col_start |-> 0, col_end |-> DISPLAY_WIDTH - 1],
    [row_start |-> 0, row_end |-> 1, col_start |-> 9, col_end |-> 10],
    [row_start |-> 8, row_end |-> 8, col_start |-> 10, col_end |-> 10],
    [row_start |-> 12, row_end |-> 12, col_start |-> 0, col_end |-> 27] }

\* the caller invokes flip_dot_clear_display(display): app_main right after
\* flip_dot_init, or any caller between two operations
CallClear ==
  /\ pc \in { "init_ret", "idle" }
  /\ op' = "clear"
  /\ rect' = NoRect
  /\ pc' = "cd_loop"
  /\ entry_state' = pixel_state
  /\ oob_store' = FALSE
  /\ sig_log' = << >>
  /\ pulse_log' = << >>
  /\ UNCHANGED << sweep_mode, pixel_state, level, sp, ret_pc, data,
                  flip_list, flip_count, idx, sh_i, F, prev_frame, cfg_err,
                  unit >>
  /\ UNCHANGED << game, task >>

\* loop body: flip_dot_set_pixel(display, r, c, false); c++ happens when the
\* call returns
CdPixel ==
  /\ pc = "cd_loop"
  /\ ClearRowCond(rect.r)
  /\ ClearColCond(rect.c)
  /\ sp' = [row |-> rect.r, col |-> rect.c, value |-> FALSE]
  /\ ret_pc' = "cd_loop"
  /\ pc' = SetPixelSteps[1]
  /\ sig_log' = << >>
  /\ UNCHANGED << sweep_mode, pixel_state, level, op, data, flip_list,
                  flip_count, idx, sh_i, F, entry_state, oob_store,
                  pulse_log, prev_frame, cfg_err, rect, unit >>
  /\ UNCHANGED << game, task >>

\* the inner loop ends: r++, c = 0
CdNextRow ==
  /\ pc = "cd_loop"
  /\ ClearRowCond(rect.r)
  /\ ~ClearColCond(rect.c)
  /\ rect' = [rect EXCEPT !.r = (@ + 1) % UINT8, !.c = 0]
  /\ UNCHANGED << sweep_mode, pixel_state, level, pc, op, sp, ret_pc, data,
                  flip_list, flip_count, idx, sh_i, F, entry_state,
                  oob_store, sig_log, pulse_log, prev_frame, cfg_err, unit >>
  /\ UNCHANGED << game, task >>

\* the outer loop ends
CdDone ==
  /\ pc = "cd_loop"
  /\ ~ClearRowCond(rect.r)
  /\ pc' = "cd_ret"
  /\ UNCHANGED << sweep_mode, pixel_state, level, op, sp, ret_pc, data,
                  flip_list, flip_count, idx, sh_i, F, entry_state,
                  oob_store, sig_log, pulse_log, prev_frame, cfg_err, rect,
                  unit >>
  /\ UNCHANGED << game, task >>

\* the caller invokes flip_dot_set_rows_cols(display, row_start, row_end,
\* col_start, col_end, pixel_value)
CallFill ==
  /\ pc = "idle"
  /\ \E a \in FillArgs, pixel_value \in BOOLEAN :
       rect' = [row_start |-> a.row_start, row_end |-> a.row_end,
                col_start |-> a.col_start, col_end |-> a.col_end,
                pixel_value |-> pixel_value,
                r |-> a.row_start, c |-> a.col_start]
  /\ op' = "fill"
  /\ pc' = "fr_loop"
  /\ entry_state' = pixel_state
  /\ oob_store' = FALSE
  /\ sig_log' = << >>
  /\ pulse_log' = << >>
  /\ UNCHANGED << sweep_mode, pixel_state, level, sp, ret_pc, data,
                  flip_list, flip_count, idx, sh_i, F, prev_frame, cfg_err,
                  unit >>
  /\ UNCHANGED << game, task >>

\* loop body: flip_dot_set_pixel(display, r, c, pixel_value); c++ happens
\* when the call returns
FrPixel ==
  /\ pc = "fr_loop"
  /\ FillRowCond(rect.r, rect.row_end)
  /\ FillColCond(rect.c, rect.col_end)
  /\ sp' = [row |-> rect.r, col |-> rect.c, value |-> rect.pixel_value]
  /\ ret_pc' = "fr_loop"
  /\ pc' = SetPixelSteps[1]
  /\ sig_log' = << >>
  /\ UNCHANGED << sweep_mode, pixel_state, level, op, data, flip_list,
                  flip_count, idx, sh_i, F, entry_state, oob_store,
                  pulse_log, prev_frame, cfg_err, rect, unit >>
  /\ UNCHANGED << game, task >>

\* the inner loop ends: r++, c = col_start
FrNextRow ==
  /\ pc = "fr_loop"
  /\ FillRowCond(rect.r, rect.row_end)
  /\ ~FillColCond(rect.c, rect.col_end)
  /\ rect' = [rect EXCEPT !.r = (@ + 1) % UINT8, !.c = rect.col_start]
  /\ UNCHANGED << sweep_mode, pixel_state, level, pc, op, sp, ret_pc, data,
                  flip_list, flip_count, idx, sh_i, F, entry_state,
                  oob_store, sig_log, pulse_log, prev_frame, cfg_err, unit >>
  /\ UNCHANGED << game, task >>

\* the outer loop ends
FrDone ==
  /\ pc = "fr_loop"
  /\ ~FillRowCond(rect.r, rect.row_end)
  /\ pc' = "fr_ret"
  /\ UNCHANGED << sweep_mode, pixel_state, level, op, sp, ret_pc, data,
                  flip_list, flip_count, idx, sh_i, F, entry_state,
                  oob_store, sig_log, pulse_log, prev_frame, cfg_err, rect,
                  unit >>
  /\ UNCHANGED << game, task >>

\* flip_dot_clear_display or flip_dot_set_rows_cols returns; the explored
\* caller makes no further call
RectReturn ==
  /\ pc \in { "cd_ret", "fr_ret" }
  /\ pc' = "finished"
  /\ prev_frame' = NoFrame
  /\ op' = "none"
  /\ sp' = NoArgs
  /\ ret_pc' = "idle"
  /\ rect' = NoRect
  /\ entry_state' = {}
  /\ oob_store' = FALSE
  /\ sig_log' = << >>
  /\ pulse_log' = << >>
  /\ UNCHANGED << sweep_mode, pixel_state, level, data, flip_list,
                  flip_count, idx, sh_i, F, cfg_err, unit >>
  /\ UNCHANGED << game, task >>

(***************************************************************************)
(* flip_dot_init and the start of app_main                                 *)
(***************************************************************************)
\* the static display object before app_main runs: zero-initialised, all
\* outputs low
InitBoot ==
  /\ sweep_mode = "SWEEP_ROW"
  /\ pixel_state = {}
  /\ level = ResetLevel
  /\ pc = "boot"
  /\ op = "none"
  /\ sp = NoArgs
  /\ ret_pc = "idle"
  /\ data = {}
  /\ flip_list = << >>
  /\ flip_count = 0
  /\ idx = 0
  /\ sh_i = 0
  /\ F = {}
  /\ entry_state = {}
  /\ oob_store = FALSE
  /\ sig_log = << >>
  /\ pulse_log = << >>
  /\ prev_frame = NoFrame
  /\ cfg_err = FALSE
  /\ rect = NoRect
  /\ unit = NoUnit
  /\ game = NoGame
  /\ task = NoTask

\* flip_dot_init(display, flip_time_us, sweep_mode): the three demux init
\* functions call gpio_config and drop its result (ESP_OK or an error), then
\* the parameters are stored, the mirror is zeroed and the enable lines are
\* written; the function returns void
FlipDotInit ==
  /\ pc = "boot"
  /\ \E failed \in [1..3 -> BOOLEAN] :
       cfg_err' = (\E k \in 1..3 : failed[k])
  /\ sweep_mode' \in sweep_mode_t
  /\ pixel_state' = {}
  /\ level' = ApplyWrites(level, InitEnableWrites)
  /\ pc' = "init_ret"
  /\ UNCHANGED << op, sp, ret_pc, data, flip_list, flip_count, idx, sh_i, F,
                  entry_state, oob_store, sig_log, pulse_log, prev_frame,
                  rect, unit >>
  /\ UNCHANGED << game, task >>

NextBoot ==
  \/ FlipDotInit
  \/ CallClear
  \/ CdPixel
  \/ CdNextRow
  \/ CdDone
  \/ SpRowGrp
  \/ SpRowPos
  \/ SpColGrp
  \/ SpColPos
  \/ SpEnable
  \/ SpDisable
  \/ SpStore
  \/ RectReturn

SpecBoot == InitBoot /\ [][NextBoot]_vars

(***************************************************************************)
(* A caller that clears or fills the display after at most one update      *)
(***************************************************************************)
\* flip_dot_update_display as the first call after flip_dot_init
CallUpdateOnce ==
  /\ prev_frame = NoFrame
  /\ CallUpdate

\* the display as app_main configures it
InitFill ==
  /\ Init
  /\ sweep_mode = "SWEEP_ROW"

NextFill ==
  \/ CallUpdateOnce
  \/ UdSweep
  \/ UdFlipCall
  \/ UdFlipDone
  \/ UdMemcpy
  \/ Return
  \/ CallClear
  \/ CdPixel
  \/ CdNextRow
  \/ CdDone
  \/ CallFill
  \/ FrPixel
  \/ FrNextRow
  \/ FrDone
  \/ SpRowGrp
  \/ SpRowPos
  \/ SpColGrp
  \/ SpColPos
  \/ SpEnable
  \/ SpDisable
  \/ SpStore
  \/ RectReturn

SpecFill == InitFill /\ [][NextFill]_vars

(***************************************************************************)
(* One flip_dot_set_pixel call on every cell of the display                *)
(***************************************************************************)
\* the state in which the first statement of flip_dot_set_pixel(display,
\* row, col, value) runs when it is the first call after flip_dot_init, for
\* every in-range cell and both values; the display is configured as in
\* app_main
InitPixel ==
  /\ sweep_mode = "SWEEP_ROW"
  /\ pixel_state = {}
  /\ level = ApplyWrites(ResetLevel, InitEnableWrites)
  /\ pc = SetPixelSteps[1]
  /\ op = "set_pixel"
  /\ \E row \in 0..(DISPLAY_HEIGHT - 1), col \in 0..(DISPLAY_WIDTH - 1),
        value \in BOOLEAN :
       sp = [row |-> row, col |-> col, value |-> value]
  /\ ret_pc = "sp_ret"
  /\ data = {}
  /\ flip_list = << >>
  /\ flip_count = 0
  /\ idx = 0
  /\ sh_i = 0
  /\ F = {}
  /\ entry_state = {}
  /\ oob_store = FALSE
  /\ sig_log = << >>
  /\ pulse_log = << >>
  /\ prev_frame = NoFrame
  /\ cfg_err = FALSE
  /\ rect = NoRect
  /\ unit = NoUnit
  /\ game = NoGame
  /\ task = NoTask

NextPixel ==
  \/ SpRowGrp
  \/ SpRowPos
  \/ SpColGrp
  \/ SpColPos
  \/ SpEnable
  \/ SpDisable
  \/ SpStore
  \/ Return

SpecPixel == InitPixel /\ [][NextPixel]_vars

(***************************************************************************)
(* gpio_write and demux_74HC4514_set_output called directly                *)
(***************************************************************************)
\* pins the direct gpio_write calls address
UnitPins == { "COL_A3", "2E" }

\* the state flip_dot_init leaves behind, with a caller that invokes the
\* two static functions directly
InitLines ==
  /\ sweep_mode = "SWEEP_ROW"
  /\ pixel_state = {}
  /\ level = ApplyWrites(ResetLevel, InitEnableWrites)
  /\ pc = "unit"
  /\ op = "none"
  /\ sp = NoArgs
  /\ ret_pc = "idle"
  /\ data = {}
  /\ flip_list = << >>
  /\ flip_count = 0
  /\ idx = 0
  /\ sh_i = 0
  /\ F = {}
  /\ entry_state = {}
  /\ oob_store = FALSE
  /\ sig_log = << >>
  /\ pulse_log = << >>
  /\ prev_frame = NoFrame
  /\ cfg_err = FALSE
  /\ rect = NoRect
  /\ unit = NoUnit
  /\ game = NoGame
  /\ task = NoTask

\* gpio_write(pin, value, is_inverted); n counts how often in a row the
\* same call has been made (up to 2)
UnitGpioWrite ==
  /\ pc = "unit"
  /\ \E pin \in UnitPins, value \in 0..1, is_inverted \in BOOLEAN :
       LET call == [fn |-> "gpio_write", pin |-> pin, value |-> value,
                    is_inverted |-> is_inverted]
       IN  /\ level' = ApplyWrites(level,
                                   << gpio_write(pin, value, is_inverted) >>)
           /\ unit' = [fn |-> "gpio_write", pin |-> pin, value |-> value,
                       is_inverted |-> is_inverted,
                       n |-> IF /\ unit.fn = "gpio_write"
                                /\ [unit EXCEPT !.n = 0] = [n |-> 0] @@ call
                               THEN 2 ELSE 1]
  /\ UNCHANGED << sweep_mode, pixel_state, pc, op, sp, ret_pc, data,
                  flip_list, flip_count, idx, sh_i, F, entry_state, oob_store,
                  sig_log, pulse_log, prev_frame, cfg_err, rect >>
  /\ UNCHANGED << game, task >>

\* demux_74HC4514_set_output(demux, output_pos) on the row or the column
\* decoder
UnitSetOutput ==
  /\ pc = "unit"
  /\ \E axis \in { "ROW", "COL" }, output_pos \in 0..15 :
       /\ level' = ApplyWrites(level,
                               demux_74HC4514_set_output(axis, output_pos))
       /\ unit' = [fn |-> "set_output", axis |-> axis,
                   output_pos |-> output_pos]
  /\ UNCHANGED << sweep_mode, pixel_state, pc, op, sp, ret_pc, data,
                  flip_list, flip_count, idx, sh_i, F, entry_state, oob_store,
                  sig_log, pulse_log, prev_frame, cfg_err, rect >>
  /\ UNCHANGED << game, task >>

NextLines ==
  \/ UnitGpioWrite
  \/ UnitSetOutput

SpecLines == InitLines /\ [][NextLines]_vars

(***************************************************************************)
(* One flip_dot_set_rows_cols call with 8-bit arguments beyond the display *)
(***************************************************************************)
\* arguments of the explored call: one cell, a rectangle empty in its rows,
\* one empty in its columns, and rectangles whose row_end or col_end is the
\* largest uint8_t
WideFillArgs ==
  { [row_start |-> 8, row_end |-> 8, col_start |-> 10, col_end |-> 10],
    [row_start |-> 5, row_end |-> 4, col_start |-> 0, col_end |-> 27],
    [row_start |-> 0, row_end |-> 12, col_start |-> 10, col_end |-> 9],
    [row_start |-> 12, row_end |-> UINT8 - 1,
     col_start |-> 27, col_end |-> 27],
    [row_start |-> 0, row_end |-> 0, col_start |-> 27, col_end |-> UINT8 - 1],
    [row_start |-> 250, row_end |-> UINT8 - 1,
     col_start |-> 3, col_end |-> 2] }

\* the first loop test of flip_dot_set_rows_cols(display, row_start, row_end,
\* col_start, col_end, pixel_value), called right after flip_dot_init on the
\* display as app_main configures it
InitWideFill ==
  /\ sweep_mode = "SWEEP_ROW"
  /\ pixel_state = {}
  /\ level = ApplyWrites(ResetLevel, InitEnableWrites)
  /\ pc = "fr_loop"
  /\ op = "fill"
  /\ sp = NoArgs
  /\ ret_pc = "idle"
  /\ data = {}
  /\ flip_list = << >>
  /\ flip_count = 0
  /\ idx = 0
  /\ sh_i = 0
  /\ F = {}
  /\ entry_state = {}
  /\ oob_store = FALSE
  /\ sig_log = << >>
  /\ pulse_log = << >>
  /\ prev_frame = NoFrame
  /\ cfg_err = FALSE
  /\ \E a \in WideFillArgs, pixel_value \in BOOLEAN :
       rect = [row_start |-> a.row_start, row_end |-> a.row_end,
               col_start |-> a.col_start, col_end |-> a.col_end,
               pixel_value |-> pixel_value,
               r |-> a.row_start, c |-> a.col_start]
  /\ unit = NoUnit
  /\ game = NoGame
  /\ task = NoTask

NextWideFill ==
  \/ FrPixel
  \/ FrNextRow
  \/ FrDone
  \/ SpRowGrp
  \/ SpRowPos
  \/ SpColGrp
  \/ SpColPos
  \/ SpEnable
  \/ SpDisable
  \/ SpStore
  \/ RectReturn

\* the calling task is never starved: while the call can take a step it
\* eventually takes one
SpecWideFill == InitWideFill /\ [][NextWideFill]_vars /\ WF_vars(NextWideFill)

(***************************************************************************)
(* delay_us, the delay flip_dot_set_pixel requests between raising and     *)
(* lowering 2E                                                             *)
(***************************************************************************)
\* largest flip_time_us explored
MaxDelayUs == 3000

\* milliseconds per tick: the scheduler runs at 1000 Hz
portTICK_PERIOD_MS == 1

\* the tick count delay_us(us) passes to vTaskDelay
delay_us(us) == (us \div 1000) \div portTICK_PERIOD_MS

\* delay_us(display->flip_time_us) for a display configured with any
\* flip_time_us; the request is kept in unit
UnitDelayUs ==
  /\ pc = "unit"
  /\ \E flip_time_us \in 0..MaxDelayUs :
       unit' = [fn |-> "delay_us", us |-> flip_time_us,
                ticks |-> delay_us(flip_time_us)]
  /\ pc' = "unit_ret"
  /\ UNCHANGED << sweep_mode, pixel_state, level, op, sp, ret_pc, data,
                  flip_list, flip_count, idx, sh_i, F, entry_state, oob_store,
                  sig_log, pulse_log, prev_frame, cfg_err, rect >>
  /\ UNCHANGED << game, task >>

NextDelay == UnitDelayUs

SpecDelay == InitLines /\ [][NextDelay]_vars

(***************************************************************************)
(* flip_dot_debug_pixel_calc called for the pixel flip_dot_set_pixel has   *)
(* just driven                                                             *)
(***************************************************************************)
\* row_output_pos / col_output_pos as flip_dot_debug_pixel_calc computes them
debug_output_pos(grp_pixel, value) == grp_pixel + 1 + (Bit(value) * 8)

\* flip_dot_debug_pixel_calc(row, col, value) with the arguments of the
\* flip_dot_set_pixel call that has just returned; what it logs is kept in
\* unit
DebugPixelCalc ==
  /\ pc = "sp_ret"
  /\ unit = NoUnit
  /\ LET row_output_pos == debug_output_pos(sp.row % 7, sp.value)
         col_output_pos == debug_output_pos(sp.col % 7, sp.value)
     IN  unit' = [fn |-> "debug_pixel_calc",
                  row_grp |-> sp.row \div 7,
                  col_grp |-> sp.col \div 7,
                  row_output_pos |-> row_output_pos,
                  col_output_pos |-> col_output_pos,
                  row_binary |-> decimal_to_bin(row_output_pos, 4),
                  col_binary |-> decimal_to_bin(col_output_pos, 4)]
  /\ UNCHANGED << sweep_mode, pixel_state, level, pc, op, sp, ret_pc, data,
                  flip_list, flip_count, idx, sh_i, F, entry_state, oob_store,
                  sig_log, pulse_log, prev_frame, cfg_err, rect >>
  /\ UNCHANGED << game, task >>

NextDebug ==
  \/ SpRowGrp
  \/ SpRowPos
  \/ SpColGrp
  \/ SpColPos
  \/ SpEnable
  \/ SpDisable
  \/ SpStore
  \/ DebugPixelCalc

SpecDebug == InitPixel /\ [][NextDebug]_vars

(***************************************************************************)
(* The running program: snake_game_run_interactive in the main task and    *)
(* snake_input_callback, called from espnow_recv_cb in the task of the     *)
(* wireless stack.  Both contexts work on the same snake_game_t and the    *)
(* same flip_dot_t; each has its own locals of flip_dot_update_display.    *)
(* The positions of snake and food are not tracked here: a render draws    *)
(* any of the frames over the first GameWin probe cells.                   *)
(***************************************************************************)
\* the select writes of flip_dot_set_pixel(display, row, col, value), in
\* program order
SelectWrites(row, col, value) ==
  demux_74HC139_set_row_group(row_grp(row))
    \o demux_74HC4514_set_output("ROW", OutputPos(row_grp_pixel(row), value))
    \o demux_74HC139_set_col_group(col_grp(col))
    \o demux_74HC4514_set_output("COL", OutputPos(col_grp_pixel(col), value))

\* number of probe cells a rendered game frame may light
GameWin == 1

GameCells == { ProbeCells[k] : k \in 1..GameWin }

GameFrames == SUBSET GameCells

\* the pattern of snake_game_show_game_over, reduced to the probe cells
GameOverFrame == GameCells

Contexts == { "loop", "wifi" }

game_state_t == { "GAME_INIT", "GAME_RUNNING", "GAME_OVER", "GAME_PAUSED" }

input_command_t ==
  { "INPUT_CMD_NONE", "INPUT_CMD_UP", "INPUT_CMD_DOWN", "INPUT_CMD_LEFT",
    "INPUT_CMD_RIGHT", "INPUT_CMD_SELECT", "INPUT_CMD_BACK",
    "INPUT_CMD_START", "INPUT_CMD_PAUSE", "INPUT_CMD_RESET" }

\* the commands espnow_recv_cb derives from the button bitmap
EspnowCommands ==
  { "INPUT_CMD_UP", "INPUT_CMD_DOWN", "INPUT_CMD_LEFT", "INPUT_CMD_RIGHT",
    "INPUT_CMD_SELECT", "INPUT_CMD_START", "INPUT_CMD_RESET",
    "INPUT_CMD_BACK" }

DirectionCommands ==
  { "INPUT_CMD_UP", "INPUT_CMD_DOWN", "INPUT_CMD_LEFT", "INPUT_CMD_RIGHT" }

NoEvent == [command |-> "INPUT_CMD_NONE", type |-> "INPUT_TYPE_NONE"]

\* a context at position p with no call of flip_dot_update_display running
TaskAt(p) ==
  [pc |-> p, after |-> "none", event |-> NoEvent, flip_list |-> << >>,
   idx |-> 0, sp |-> NoArgs]

\* variables of the single-caller specifications, untouched by the program
driver_locals ==
  << sweep_mode, pc, op, sp, ret_pc, data, flip_list, flip_count, idx, sh_i,
     F, entry_state, oob_store, sig_log, pulse_log, prev_frame, cfg_err,
     rect, unit >>

\* the levels flip_dot_clear_display leaves: its last call is
\* flip_dot_set_pixel(display, 12, 27, false)
ClearedLevel ==
  ApplyWrites(ApplyWrites(ResetLevel, InitEnableWrites),
              SelectWrites(DISPLAY_HEIGHT - 1, DISPLAY_WIDTH - 1, FALSE)
                \o << gpio_write("2E", 1, PinInverted("2E")),
                      gpio_write("2E", 0, PinInverted("2E")) >>)

\* app_main has initialised and cleared the display;
\* snake_game_run_interactive has initialised the game, registered the
\* callback and is about to render the start screen
InitGame ==
  /\ sweep_mode = "SWEEP_ROW"
  /\ pixel_state = {}
  /\ level = ClearedLevel
  /\ pc = "idle"
  /\ op = "none"
  /\ sp = NoArgs
  /\ ret_pc = "idle"
  /\ data = {}
  /\ flip_list = << >>
  /\ flip_count = 0
  /\ idx = 0
  /\ sh_i = 0
  /\ F = {}
  /\ entry_state = {}
  /\ oob_store = FALSE
  /\ sig_log = << >>
  /\ pulse_log = << >>
  /\ prev_frame = NoFrame
  /\ cfg_err = FALSE
  /\ rect = NoRect
  /\ unit = NoUnit
  /\ game = [state |-> "GAME_INIT", game_buffer |-> {}]
  /\ task = [loop |-> [TaskAt("render") EXCEPT !.after = "loop_top"],
             wifi |-> TaskAt("cb_idle")]

\* snake_game_render: clear the buffer, draw snake and food, then call
\* flip_dot_update_display(game->display, game->game_buffer)
Render(c) ==
  /\ task[c].pc = "render"
  /\ \E frame \in GameFrames : game' = [game EXCEPT !.game_buffer = frame]
  /\ task' = [task EXCEPT ![c].pc = "ud_enter"]
  /\ UNCHANGED << pixel_state, level >>
  /\ UNCHANGED driver_locals

\* flip_dot_update_display: the diff loops fill the context's flip_list;
\* the display sweeps by row, so the list is used as found
TaskUdEnter(c) ==
  /\ task[c].pc = "ud_enter"
  /\ task' = [task EXCEPT
                ![c].flip_list = DiffList(game.game_buffer, pixel_state),
                ![c].idx = 0,
                ![c].pc = "ud_flip"]
  /\ UNCHANGED << pixel_state, level, game >>
  /\ UNCHANGED driver_locals

\* flip loop: flip_dot_set_pixel(display, r, c, data[r][c]), or the loop ends
TaskUdFlip(c) ==
  /\ task[c].pc = "ud_flip"
  /\ IF task[c].idx < Len(task[c].flip_list)
       THEN LET cell == task[c].flip_list[task[c].idx + 1]
            IN  task' = [task EXCEPT
                           ![c].sp = [row |-> cell[1], col |-> cell[2],
                                      value |-> Pixel(game.game_buffer,
                                                      cell[1], cell[2]) # 0],
                           ![c].pc = "sp_select"]
       ELSE task' = [task EXCEPT ![c].pc = "ud_memcpy"]
  /\ UNCHANGED << pixel_state, level, game >>
  /\ UNCHANGED driver_locals

\* flip_dot_set_pixel: the group-select and position-select writes
TaskSpSelect(c) ==
  /\ task[c].pc = "sp_select"
  /\ level' = ApplyWrites(level, SelectWrites(task[c].sp.row, task[c].sp.col,
                                              task[c].sp.value))
  /\ task' = [task EXCEPT ![c].pc = "sp_enable"]
  /\ UNCHANGED << pixel_state, game >>
  /\ UNCHANGED driver_locals

\* flip_dot_set_pixel: 2E is raised; the task then sleeps in delay_us
TaskSpEnable(c) ==
  /\ task[c].pc = "sp_enable"
  /\ level' = ApplyWrites(level, << gpio_write("2E", 1, PinInverted("2E")) >>)
  /\ task' = [task EXCEPT ![c].pc = "sp_disable"]
  /\ UNCHANGED << pixel_state, game >>
  /\ UNCHANGED driver_locals

\* flip_dot_set_pixel: 2E is lowered; the task then sleeps in delay_us
TaskSpDisable(c) ==
  /\ task[c].pc = "sp_disable"
  /\ level' = ApplyWrites(level, << gpio_write("2E", 0, PinInverted("2E")) >>)
  /\ task' = [task EXCEPT ![c].pc = "sp_store"]
  /\ UNCHANGED << pixel_state, game >>
  /\ UNCHANGED driver_locals

\* flip_dot_set_pixel: display->pixel_state[row][col] = value, and the flip
\* loop's i++
TaskSpStore(c) ==
  /\ task[c].pc = "sp_store"
  /\ LET cell == << task[c].sp.row, task[c].sp.col >>
     IN  pixel_state' = IF task[c].sp.value THEN pixel_state \cup { cell }
                                            ELSE pixel_state \ { cell }
  /\ task' = [task EXCEPT ![c].idx = @ + 1, ![c].sp = NoArgs,
                          ![c].pc = "ud_flip"]
  /\ UNCHANGED << level, game >>
  /\ UNCHANGED driver_locals

\* flip_dot_update_display: memcpy of the frame into the mirror, return to
\* the caller of snake_game_render
TaskUdMemcpy(c) ==
  /\ task[c].pc = "ud_memcpy"
  /\ pixel_state' = game.game_buffer
  /\ task' = [task EXCEPT ![c] = TaskAt(task[c].after)]
  /\ UNCHANGED << level, game >>
  /\ UNCHANGED driver_locals

\* main loop of snake_game_run_interactive: the game is running and
\* game_speed_ms has elapsed, so snake_game_update is called
LoopTick ==
  /\ task.loop.pc = "loop_top"
  /\ game.state = "GAME_RUNNING"
  /\ task' = [task EXCEPT !.loop.pc = "update_game"]
  /\ UNCHANGED << pixel_state, level, game >>
  /\ UNCHANGED driver_locals

\* snake_game_update: nothing unless running; the move ends in a collision
\* (GAME_OVER, no render) or in snake_game_render
GameUpdate ==
  /\ task.loop.pc = "update_game"
  /\ IF game.state # "GAME_RUNNING"
       THEN /\ task' = [task EXCEPT !.loop.pc = "after_update"]
            /\ UNCHANGED game
       ELSE \E collision \in BOOLEAN :
              IF collision
                THEN /\ game' = [game EXCEPT !.state = "GAME_OVER"]
                     /\ task' = [task EXCEPT !.loop.pc = "after_update"]
                ELSE /\ task' = [task EXCEPT !.loop.pc = "render",
                                             !.loop.after = "after_update"]
                     /\ UNCHANGED game
  /\ UNCHANGED << pixel_state, level >>
  /\ UNCHANGED driver_locals

\* after snake_game_update: on game over snake_game_show_game_over draws
\* its pattern and calls flip_dot_update_display
AfterUpdate ==
  /\ task.loop.pc = "after_update"
  /\ IF game.state = "GAME_OVER"
       THEN /\ game' = [game EXCEPT !.game_buffer = GameOverFrame]
            /\ task' = [task EXCEPT !.loop.pc = "ud_enter",
                                    !.loop.after = "go_reset"]
       ELSE /\ task' = [task EXCEPT !.loop.pc = "loop_top"]
            /\ UNCHANGED game
  /\ UNCHANGED << pixel_state, level >>
  /\ UNCHANGED driver_locals

\* snake_game_reset called by the game loop after the game-over screen
GameOverReset ==
  /\ task.loop.pc = "go_reset"
  /\ game' = [game EXCEPT !.state = "GAME_INIT"]
  /\ task' = [task EXCEPT !.loop.pc = "render", !.loop.after = "go_start"]
  /\ UNCHANGED << pixel_state, level >>
  /\ UNCHANGED driver_locals

\* the start screen is rendered again
StartScreen ==
  /\ task.loop.pc = "go_start"
  /\ task' = [task EXCEPT !.loop.pc = "render", !.loop.after = "loop_top"]
  /\ UNCHANGED << pixel_state, level, game >>
  /\ UNCHANGED driver_locals

\* espnow_recv_cb: a packet with one button bit set arrives and
\* send_input_event calls snake_input_callback with the button's command
EspnowRecv ==
  /\ task.wifi.pc = "cb_idle"
  /\ \E command \in EspnowCommands :
       task' = [task EXCEPT
                  !.wifi.event = [command |-> command,
                                  type |-> "INPUT_TYPE_ESPNOW"],
                  !.wifi.pc = "cb_run"]
  /\ UNCHANGED << pixel_state, level, game >>
  /\ UNCHANGED driver_locals

\* snake_input_callback is handed an event with any command, from the
\* wireless or from the serial decoder
DeliverEvent ==
  /\ task.wifi.pc = "cb_idle"
  /\ \E command \in input_command_t,
        type \in { "INPUT_TYPE_ESPNOW", "INPUT_TYPE_SERIAL" } :
       task' = [task EXCEPT
                  !.wifi.event = [command |-> command, type |-> type],
                  !.wifi.pc = "cb_run"]
  /\ UNCHANGED << pixel_state, level, game >>
  /\ UNCHANGED driver_locals

\* body of snake_input_callback
InputCallback ==
  /\ task.wifi.pc = "cb_run"
  /\ LET event == task.wifi.event
     IN  IF game.state = "GAME_INIT" /\ event.type = "INPUT_TYPE_ESPNOW"
           THEN \* snake_game_start
                /\ game' = [game EXCEPT !.state = "GAME_RUNNING"]
                /\ task' = [task EXCEPT !.wifi.pc = "render",
                                        !.wifi.after = "cb_idle",
                                        !.wifi.event = NoEvent]
         ELSE IF game.state # "GAME_RUNNING"
           THEN /\ task' = [task EXCEPT !.wifi = TaskAt("cb_idle")]
                /\ UNCHANGED game
         ELSE IF event.command = "INPUT_CMD_PAUSE"
           THEN \* snake_game_pause
                /\ game' = [game EXCEPT !.state = "GAME_PAUSED"]
                /\ task' = [task EXCEPT !.wifi = TaskAt("cb_idle")]
         ELSE IF event.command = "INPUT_CMD_RESET"
           THEN \* snake_game_reset
                /\ game' = [game EXCEPT !.state = "GAME_INIT"]
                /\ task' = [task EXCEPT !.wifi.pc = "render",
                                        !.wifi.after = "cb_idle",
                                        !.wifi.event = NoEvent]
         ELSE \* a direction is buffered, any other command is ignored
                /\ task' = [task EXCEPT !.wifi = TaskAt("cb_idle")]
                /\ UNCHANGED game
  /\ UNCHANGED << pixel_state, level >>
  /\ UNCHANGED driver_locals

NextGame ==
  \/ \E c \in Contexts : Render(c)
  \/ \E c \in Contexts : TaskUdEnter(c)
  \/ \E c \in Contexts : TaskUdFlip(c)
  \/ \E c \in Contexts : TaskSpSelect(c)
  \/ \E c \in Contexts : TaskSpEnable(c)
  \/ \E c \in Contexts : TaskSpDisable(c)
  \/ \E c \in Contexts : TaskSpStore(c)
  \/ \E c \in Contexts : TaskUdMemcpy(c)
  \/ LoopTick
  \/ GameUpdate
  \/ AfterUpdate
  \/ GameOverReset
  \/ StartScreen
  \/ EspnowRecv
  \/ InputCallback

SpecGame == InitGame /\ [][NextGame]_vars

NextCallback ==
  \/ \E c \in Contexts : Render(c)
  \/ \E c \in Contexts : TaskUdEnter(c)
  \/ \E c \in Contexts : TaskUdFlip(c)
  \/ \E c \in Contexts : TaskSpSelect(c)
  \/ \E c \in Contexts : TaskSpEnable(c)
  \/ \E c \in Contexts : TaskSpDisable(c)
  \/ \E c \in Contexts : TaskSpStore(c)
  \/ \E c \in Contexts : TaskUdMemcpy(c)
  \/ LoopTick
  \/ GameUpdate
  \/ AfterUpdate
  \/ GameOverReset
  \/ StartScreen
  \/ DeliverEvent
  \/ InputCallback

SpecCallback == InitGame /\ [][NextCallback]_vars

(***************************************************************************)
(* The direction buffer of the snake (direction_buffer_t), used by one     *)
(* context                                                                 *)
(***************************************************************************)
\* slots of the ring; the header that defines DIRECTION_BUFFER_SIZE is not
\* part of the sources, the functions are explored for this size
DIRECTION_BUFFER_SIZE == 3

snake_direction_t == { "DIR_UP", "DIR_DOWN", "DIR_LEFT", "DIR_RIGHT" }

\* content of a slot that was never written
SlotUnset == "unset"

\* direction_buffer_init: head, tail and count are zeroed, the slots are
\* left as they are
direction_buffer_init(buffer) ==
  [buffer EXCEPT !.head = 0, !.tail = 0, !.count = 0]

\* a direction_buffer_t that was initialised and never written
FreshBuffer ==
  direction_buffer_init(
    [head |-> 0, tail |-> 0, count |-> 0,
     buffer |-> [k \in 0..(DIRECTION_BUFFER_SIZE - 1) |-> SlotUnset]])

\* the test direction_buffer_push makes before it stores
BufferFull_off_by_one(buffer) == buffer.count > DIRECTION_BUFFER_SIZE

BufferFull(buffer) == buffer.count >= DIRECTION_BUFFER_SIZE

\* direction_buffer_push(buffer, direction): return value and buffer
\* afterwards
direction_buffer_push(buffer, direction) ==
  IF BufferFull(buffer)
    THEN [ret |-> FALSE, buffer |-> buffer]
    ELSE [ret |-> TRUE,
          buffer |-> [buffer EXCEPT
                        !.buffer[buffer.head] = direction,
                        !.head = (buffer.head + 1) % DIRECTION_BUFFER_SIZE,
                        !.count = buffer.count + 1]]

\* direction_buffer_pop(buffer, &direction): return value, *direction and
\* buffer afterwards; *direction is not written when the buffer is empty
direction_buffer_pop(buffer) ==
  IF buffer.count = 0
    THEN [ret |-> FALSE, direction |-> "none", buffer |-> buffer]
    ELSE [ret |-> TRUE,
          direction |-> buffer.buffer[buffer.tail],
          buffer |-> [buffer EXCEPT
                        !.tail = (buffer.tail + 1) % DIRECTION_BUFFER_SIZE,
                        !.count = buffer.count - 1]]

\* no display operation is running; the display sweeps by row as app_main
\* configures it
DriverIdle ==
  /\ sweep_mode = "SWEEP_ROW"
  /\ pc = "idle"
  /\ op = "none"
  /\ sp = NoArgs
  /\ ret_pc = "idle"
  /\ data = {}
  /\ flip_list = << >>
  /\ flip_count = 0
  /\ idx = 0
  /\ sh_i = 0
  /\ F = {}
  /\ entry_state = {}
  /\ oob_store = FALSE
  /\ sig_log = << >>
  /\ pulse_log = << >>
  /\ prev_frame = NoFrame
  /\ cfg_err = FALSE
  /\ rect = NoRect

\* the display after app_main has initialised and cleared it, with no
\* display operation running
DisplayReady ==
  /\ pixel_state = {}
  /\ level = ClearedLevel
  /\ DriverIdle

\* a caller holding one direction_buffer_t, right after
\* direction_buffer_init; fifo lists the directions pushed and not yet
\* popped, oldest first
InitBuffer ==
  /\ DisplayReady
  /\ unit = NoUnit
  /\ game = [state |-> "none", input_buffer |-> FreshBuffer, fifo |-> << >>]
  /\ task = NoTask

\* the caller calls direction_buffer_init again
BufferInit ==
  /\ game' = [game EXCEPT
                !.input_buffer = direction_buffer_init(game.input_buffer),
                !.fifo = << >>]
  /\ unit' = [fn |-> "direction_buffer_init", ret |-> TRUE,
              direction |-> "none", before |-> game.input_buffer,
              fifo_before |-> game.fifo]
  /\ UNCHANGED << pixel_state, level, task >>
  /\ UNCHANGED << sweep_mode, pc, op, sp, ret_pc, data, flip_list,
                  flip_count, idx, sh_i, F, entry_state, oob_store, sig_log,
                  pulse_log, prev_frame, cfg_err, rect >>

\* the caller calls direction_buffer_push(buffer, direction)
BufferPush ==
  /\ \E direction \in snake_direction_t :
       LET r == direction_buffer_push(game.input_buffer, direction)
       IN  /\ game' = [game EXCEPT
                         !.input_buffer = r.buffer,
                         !.fifo = IF r.ret THEN Append(@, direction) ELSE @]
           /\ unit' = [fn |-> "direction_buffer_push", ret |-> r.ret,
                       direction |-> direction, before |-> game.input_buffer,
                       fifo_before |-> game.fifo]
  /\ UNCHANGED << pixel_state, level, task >>
  /\ UNCHANGED << sweep_mode, pc, op, sp, ret_pc, data, flip_list,
                  flip_count, idx, sh_i, F, entry_state, oob_store, sig_log,
                  pulse_log, prev_frame, cfg_err, rect >>

\* the caller calls direction_buffer_pop(buffer, &direction)
BufferPop ==
  /\ LET r == direction_buffer_pop(game.input_buffer)
     IN  /\ game' = [game EXCEPT
                       !.input_buffer = r.buffer,
                       !.fifo = IF r.ret THEN Tail(@) ELSE @]
         /\ unit' = [fn |-> "direction_buffer_pop", ret |-> r.ret,
                     direction |-> r.direction, before |-> game.input_buffer,
                     fifo_before |-> game.fifo]
  /\ UNCHANGED << pixel_state, level, task >>
  /\ UNCHANGED << sweep_mode, pc, op, sp, ret_pc, data, flip_list,
                  flip_count, idx, sh_i, F, entry_state, oob_store, sig_log,
                  pulse_log, prev_frame, cfg_err, rect >>

NextBuffer ==
  \/ BufferInit
  \/ BufferPush
  \/ BufferPop

SpecBuffer == InitBuffer /\ [][NextBuffer]_vars

(***************************************************************************)
(* direction_buffer_pop in the game loop (move_snake) against              *)
(* direction_buffer_push in the input callback, statement by statement.    *)
(* count++ and count-- are a load and a store each.                        *)
(***************************************************************************)
\* a context outside the buffer functions
BufferTaskIdle == [pc |-> "idle", reg |-> 0, direction |-> "none"]

\* the game is running with an initialised, empty buffer; fifo lists the
\* directions stored and not yet read, oldest first; lost and empty_pop
\* record an unread direction being overwritten and a pop reading a slot
\* that holds no stored direction
InitRace ==
  /\ DisplayReady
  /\ unit = NoUnit
  /\ game = [state |-> "GAME_RUNNING", input_buffer |-> FreshBuffer,
             fifo |-> << >>, lost |-> FALSE, empty_pop |-> FALSE]
  /\ task = [loop |-> BufferTaskIdle, wifi |-> BufferTaskIdle]

\* direction_buffer_pop: if (buffer->count == 0) return false
PopTest ==
  /\ task.loop.pc = "idle"
  /\ task' = IF game.input_buffer.count = 0
               THEN task
               ELSE [task EXCEPT !.loop.pc = "pop_read"]
  /\ UNCHANGED game
  /\ UNCHANGED << pixel_state, level, unit >>
  /\ UNCHANGED << sweep_mode, pc, op, sp, ret_pc, data, flip_list,
                  flip_count, idx, sh_i, F, entry_state, oob_store, sig_log,
                  pulse_log, prev_frame, cfg_err, rect >>

\* *direction = buffer->buffer[buffer->tail]
PopRead ==
  /\ task.loop.pc = "pop_read"
  /\ task' = [task EXCEPT
                !.loop.direction =
                  game.input_buffer.buffer[game.input_buffer.tail],
                !.loop.pc = "pop_tail"]
  /\ game' = IF game.fifo = << >>
               THEN [game EXCEPT !.empty_pop = TRUE]
               ELSE [game EXCEPT !.fifo = Tail(@)]
  /\ UNCHANGED << pixel_state, level, unit >>
  /\ UNCHANGED << sweep_mode, pc, op, sp, ret_pc, data, flip_list,
                  flip_count, idx, sh_i, F, entry_state, oob_store, sig_log,
                  pulse_log, prev_frame, cfg_err, rect >>

\* buffer->tail = (buffer->tail + 1) % DIRECTION_BUFFER_SIZE
PopTail ==
  /\ task.loop.pc = "pop_tail"
  /\ game' = [game EXCEPT
                !.input_buffer.tail = (@ + 1) % DIRECTION_BUFFER_SIZE]
  /\ task' = [task EXCEPT !.loop.pc = "pop_load"]
  /\ UNCHANGED << pixel_state, level, unit >>
  /\ UNCHANGED << sweep_mode, pc, op, sp, ret_pc, data, flip_list,
                  flip_count, idx, sh_i, F, entry_state, oob_store, sig_log,
                  pulse_log, prev_frame, cfg_err, rect >>

\* buffer->count--: the load
PopLoadCount ==
  /\ task.loop.pc = "pop_load"
  /\ task' = [task EXCEPT !.loop.reg = game.input_buffer.count,
                          !.loop.pc = "pop_store"]
  /\ UNCHANGED game
  /\ UNCHANGED << pixel_state, level, unit >>
  /\ UNCHANGED << sweep_mode, pc, op, sp, ret_pc, data, flip_list,
                  flip_count, idx, sh_i, F, entry_state, oob_store, sig_log,
                  pulse_log, prev_frame, cfg_err, rect >>

\* buffer->count--: the store (uint8_t arithmetic); pop returns true
PopStoreCount ==
  /\ task.loop.pc = "pop_store"
  /\ game' = [game EXCEPT
                !.input_buffer.count = (task.loop.reg - 1) % UINT8]
  /\ task' = [task EXCEPT !.loop = BufferTaskIdle]
  /\ UNCHANGED << pixel_state, level, unit >>
  /\ UNCHANGED << sweep_mode, pc, op, sp, ret_pc, data, flip_list,
                  flip_count, idx, sh_i, F, entry_state, oob_store, sig_log,
                  pulse_log, prev_frame, cfg_err, rect >>

\* direction_buffer_push(buffer, direction):
\* if (buffer->count >= DIRECTION_BUFFER_SIZE) return false
PushTest ==
  /\ task.wifi.pc = "idle"
  /\ \E direction \in snake_direction_t :
       task' = IF BufferFull(game.input_buffer)
                 THEN task
                 ELSE [task EXCEPT !.wifi.direction = direction,
                                   !.wifi.pc = "push_write"]
  /\ UNCHANGED game
  /\ UNCHANGED << pixel_state, level, unit >>
  /\ UNCHANGED << sweep_mode, pc, op, sp, ret_pc, data, flip_list,
                  flip_count, idx, sh_i, F, entry_state, oob_store, sig_log,
                  pulse_log, prev_frame, cfg_err, rect >>

\* buffer->buffer[buffer->head] = direction
PushWrite ==
  /\ task.wifi.pc = "push_write"
  /\ game' = [game EXCEPT
                !.input_buffer.buffer[game.input_buffer.head] =
                  task.wifi.direction,
                !.fifo = IF Len(@) = DIRECTION_BUFFER_SIZE
                           THEN Append(Tail(@), task.wifi.direction)
                           ELSE Append(@, task.wifi.direction),
                !.lost = @ \/ Len(game.fifo) = DIRECTION_BUFFER_SIZE]
  /\ task' = [task EXCEPT !.wifi.pc = "push_head"]
  /\ UNCHANGED << pixel_state, level, unit >>
  /\ UNCHANGED << sweep_mode, pc, op, sp, ret_pc, data, flip_list,
                  flip_count, idx, sh_i, F, entry_state, oob_store, sig_log,
                  pulse_log, prev_frame, cfg_err, rect >>

\* buffer->head = (buffer->head + 1) % DIRECTION_BUFFER_SIZE
PushHead ==
  /\ task.wifi.pc = "push_head"
  /\ game' = [game EXCEPT
                !.input_buffer.head = (@ + 1) % DIRECTION_BUFFER_SIZE]
  /\ task' = [task EXCEPT !.wifi.pc = "push_load"]
  /\ UNCHANGED << pixel_state, level, unit >>
  /\ UNCHANGED << sweep_mode, pc, op, sp, ret_pc, data, flip_list,
                  flip_count, idx, sh_i, F, entry_state, oob_store, sig_log,
                  pulse_log, prev_frame, cfg_err, rect >>

\* buffer->count++: the load
PushLoadCount ==
  /\ task.wifi.pc = "push_load"
  /\ task' = [task EXCEPT !.wifi.reg = game.input_buffer.count,
                          !.wifi.pc = "push_store"]
  /\ UNCHANGED game
  /\ UNCHANGED << pixel_state, level, unit >>
  /\ UNCHANGED << sweep_mode, pc, op, sp, ret_pc, data, flip_list,
                  flip_count, idx, sh_i, F, entry_state, oob_store, sig_log,
                  pulse_log, prev_frame, cfg_err, rect >>

\* buffer->count++: the store (uint8_t arithmetic); push returns true
PushStoreCount ==
  /\ task.wifi.pc = "push_store"
  /\ game' = [game EXCEPT
                !.input_buffer.count = (task.wifi.reg + 1) % UINT8]
  /\ task' = [task EXCEPT !.wifi = BufferTaskIdle]
  /\ UNCHANGED << pixel_state, level, unit >>
  /\ UNCHANGED << sweep_mode, pc, op, sp, ret_pc, data, flip_list,
                  flip_count, idx, sh_i, F, entry_state, oob_store, sig_log,
                  pulse_log, prev_frame, cfg_err, rect >>

NextRace ==
  \/ PopTest
  \/ PopRead
  \/ PopTail
  \/ PopLoadCount
  \/ PopStoreCount
  \/ PushTest
  \/ PushWrite
  \/ PushHead
  \/ PushLoadCount
  \/ PushStoreCount

SpecRace == InitRace /\ [][NextRace]_vars

(***************************************************************************)
(* The snake game (snake.c) driven through its public functions by one     *)
(* context.  A position is << x, y >>; snake.segments lists the first      *)
(* snake.length entries of the segments array, head first.                 *)
(***************************************************************************)
SNAKE_MAX_LENGTH == 50

SNAKE_INITIAL_LENGTH == 3

SNAKE_INITIAL_SPEED_MS == 500

SNAKE_SPEED_DECREASE_PER_LEVEL == 50

SNAKE_MIN_SPEED_MS == 100

GAME_MAX_X == DISPLAY_WIDTH - 1

GAME_MAX_Y == DISPLAY_HEIGHT - 1

\* food[i].position of an inactive food item
NoFoodPosition == << 255, 255 >>

NoFood == [position |-> NoFoodPosition, active |-> FALSE]

\* init_snake: three segments from the centre of the grid to the left,
\* heading right, with an empty direction buffer
init_snake ==
  LET start_x == GAME_MAX_X \div 2
      start_y == GAME_MAX_Y \div 2
  IN  [length |-> SNAKE_INITIAL_LENGTH,
       direction |-> "DIR_RIGHT",
       input_buffer |-> FreshBuffer,
       segments |-> [i \in 1..SNAKE_INITIAL_LENGTH |->
                       << (start_x - (i - 1)) % UINT8, start_y >>]]

\* the direction move_snake refuses after the given one
Opposite(direction) ==
  CASE direction = "DIR_UP" -> "DIR_DOWN"
    [] direction = "DIR_DOWN" -> "DIR_UP"
    [] direction = "DIR_LEFT" -> "DIR_RIGHT"
    [] direction = "DIR_RIGHT" -> "DIR_LEFT"

\* valid_change of move_snake
valid_change_always(direction, next_direction) == TRUE

valid_change(direction, next_direction) ==
  next_direction # Opposite(direction)

\* new_head of move_snake: the head moved one cell, in uint8_t arithmetic
NewHead(head, direction) ==
  CASE direction = "DIR_UP" -> << head[1], (head[2] - 1) % UINT8 >>
    [] direction = "DIR_DOWN" -> << head[1], (head[2] + 1) % UINT8 >>
    [] direction = "DIR_LEFT" -> << (head[1] - 1) % UINT8, head[2] >>
    [] direction = "DIR_RIGHT" -> << (head[1] + 1) % UINT8, head[2] >>

\* move_snake(snake): at most one direction is popped, it replaces the
\* direction unless it is the opposite one; every segment takes the place
\* of the one before it and the head moves one cell
move_snake(snake) ==
  LET popped    == direction_buffer_pop(snake.input_buffer)
      direction == IF popped.ret /\ valid_change(snake.direction,
                                                  popped.direction)
                     THEN popped.direction
                     ELSE snake.direction
      new_head  == NewHead(snake.segments[1], direction)
  IN  [snake EXCEPT
         !.input_buffer = popped.buffer,
         !.direction = direction,
         !.segments = [i \in 1..snake.length |->
                         IF i = 1 THEN new_head ELSE snake.segments[i - 1]]]

is_valid_position_exclusive(pos) == pos[1] < GAME_MAX_X /\ pos[2] < GAME_MAX_Y

is_valid_position(pos) == pos[1] <= GAME_MAX_X /\ pos[2] <= GAME_MAX_Y

is_position_in_snake(snake, pos) ==
  \E i \in 1..snake.length : snake.segments[i] = pos

\* snake_game_check_collision: the head is outside the grid or on another
\* segment
snake_game_check_collision(snake) ==
  \/ ~is_valid_position(snake.segments[1])
  \/ \E i \in 2..snake.length : snake.segments[i] = snake.segments[1]

\* snake_game_check_food_collision: the active food item is under the head
snake_game_check_food_collision(snake, food) ==
  food.active /\ food.position = snake.segments[1]

\* the growth test of snake_game_update
CanGrow_inclusive(length) == length <= SNAKE_MAX_LENGTH

CanGrow(length) == length < SNAKE_MAX_LENGTH

\* snake_game_update, growth: the new last segment is the tail's position
\* before the move
Grow(snake, tail_pos_before_move) ==
  IF CanGrow(snake.length)
    THEN [snake EXCEPT !.length = @ + 1,
                       !.segments = Append(@, tail_pos_before_move)]
    ELSE snake

\* the level-up test of snake_game_update
LevelUpDue(score) == score % 50 = 0

\* snake_game_update, level-up: every 50 points level++ and the speed
\* drops by one step, not below SNAKE_MIN_SPEED_MS
LevelUp(g) ==
  LET speed == IF g.game_speed_ms > SNAKE_MIN_SPEED_MS
                 THEN IF g.game_speed_ms - SNAKE_SPEED_DECREASE_PER_LEVEL
                           < SNAKE_MIN_SPEED_MS
                        THEN SNAKE_MIN_SPEED_MS
                        ELSE g.game_speed_ms - SNAKE_SPEED_DECREASE_PER_LEVEL
                 ELSE g.game_speed_ms
  IN  IF LevelUpDue(g.score)
        THEN [g EXCEPT !.level = @ + 1, !.game_speed_ms = speed]
        ELSE g

\* snake_game_update, scoring: score += 10, then the level-up
Score(g) == LevelUp([g EXCEPT !.score = @ + 10])

\* positions the random draws of snake_game_generate_food are explored
\* for: the corner it skips, the head and the tail of the snake, the cell
\* ahead of the head, the start position of the snake and one cell away
\* from it
FoodDraws(snake) ==
  { << 0, 0 >>, << 3, 3 >>, init_snake.segments[1], snake.segments[1],
    snake.segments[snake.length] }
    \cup { p \in { NewHead(snake.segments[1], snake.direction) } :
             is_valid_position(p) }

\* the fallback scan of snake_game_generate_food from scan position k on:
\* rows from the top, cells from the left, (0, 0) skipped; the first cell
\* that is not in the snake, or nothing
RECURSIVE FallbackScanFrom(_, _)
FallbackScanFrom(snake, k) ==
  LET p == << k % DISPLAY_WIDTH, k \div DISPLAY_WIDTH >>
  IN  IF k >= DISPLAY_HEIGHT * DISPLAY_WIDTH
        THEN {}
        ELSE IF p # << 0, 0 >> /\ ~is_position_in_snake(snake, p)
               THEN { p }
               ELSE FallbackScanFrom(snake, k + 1)

FallbackScan(snake) == FallbackScanFrom(snake, 0)

\* snake_game_generate_food: the food items it can leave behind.  A draw
\* is accepted when it is not (0, 0) and not in the snake; when all 200
\* draws are refused the fallback scan places the food, and the slot stays
\* inactive when the scan finds no free cell
snake_game_generate_food(snake) ==
  { [position |-> p, active |-> TRUE] :
      p \in { d \in FoodDraws(snake) :
                d # << 0, 0 >> /\ ~is_position_in_snake(snake, d) } }
    \cup (IF FallbackScan(snake) = {}
            THEN { NoFood }
            ELSE { [position |-> p, active |-> TRUE] :
                     p \in FallbackScan(snake) })

\* snake_game_render, food part: an active food item at (0, 0) or outside
\* the display is deactivated
RenderedFood(food) ==
  IF /\ food.active
     /\ \/ food.position = << 0, 0 >>
        \/ ~(food.position[1] <= GAME_MAX_X /\ food.position[2] <= GAME_MAX_Y)
    THEN [food EXCEPT !.active = FALSE]
    ELSE food

\* snake_game_render, buffer part: the lit cells << row, col >> of
\* game_buffer
RenderedBuffer(snake, food) ==
  { << snake.segments[i][2], snake.segments[i][1] >> :
      i \in { k \in 1..snake.length :
                /\ snake.segments[k][1] < DISPLAY_WIDTH
                /\ snake.segments[k][2] < DISPLAY_HEIGHT } }
    \cup (IF RenderedFood(food).active
            THEN { << food.position[2], food.position[1] >> }
            ELSE {})

\* the line levels flip_dot_update_display leaves when it sweeps by row
\* from the given levels and mirror to the frame: the select lines of the
\* last cell it flipped, 2E low
LevelAfter(lv, mirror, frame) ==
  LET D == DiffCells(frame, mirror)
  IN  IF D = {}
        THEN lv
        ELSE LET cell == CHOOSE c \in D :
                           \A e \in D : ScanIndex(e) <= ScanIndex(c)
             IN  ApplyWrites(lv,
                   SelectWrites(cell[1], cell[2],
                                Pixel(frame, cell[1], cell[2]) # 0)
                     \o << gpio_write("2E", 1, PinInverted("2E")),
                           gpio_write("2E", 0, PinInverted("2E")) >>)

LevelAfterUpdate(frame) == LevelAfter(level, pixel_state, frame)

\* snake_game_update calls explored in one running game (moves counts
\* them)
MaxMoves == 3

\* snake_game_change_direction calls explored in one game
MaxPushes == 2

\* updates and direction requests explored in a game that is taken up in
\* progress
ProgressMoves == MaxMoves \div 2

ProgressPushes == MaxPushes \div 2

\* snake_game_render applied to a game: the food is checked, the buffer is
\* redrawn
Rendered(g) ==
  [g EXCEPT !.food = RenderedFood(g.food),
            !.game_buffer = RenderedBuffer(g.snake, g.food)]

\* the game leaves the function rendered: snake_game_render has redrawn
\* the buffer and flip_dot_update_display has brought the display to it
ReturnRendered(fn, g) ==
  LET r == Rendered(g)
  IN  /\ game' = r
      /\ pixel_state' = r.game_buffer
      /\ level' = LevelAfterUpdate(r.game_buffer)
      /\ unit' = [fn |-> fn, rendered |-> TRUE]

\* the function returns without rendering
ReturnPlain(fn, g) ==
  /\ game' = g
  /\ unit' = [fn |-> fn, rendered |-> FALSE]
  /\ UNCHANGED << pixel_state, level >>

\* the games snake_game_init leaves behind; eaten counts the food eaten,
\* moves the updates of the running game and pushes the direction requests
\* made since
snake_game_init ==
  { [state |-> "GAME_INIT", score |-> 0, level |-> 1,
     game_speed_ms |-> SNAKE_INITIAL_SPEED_MS, game_buffer |-> {},
     snake |-> init_snake, food |-> food, eaten |-> 0, moves |-> 0,
     pushes |-> 0] :
      food \in snake_game_generate_food(init_snake) }

\* snake_game_start(game)
SnakeGameStart ==
  /\ ReturnRendered("snake_game_start",
                    [game EXCEPT !.state = "GAME_RUNNING"])
  /\ UNCHANGED task
  /\ UNCHANGED << sweep_mode, pc, op, sp, ret_pc, data, flip_list,
                  flip_count, idx, sh_i, F, entry_state, oob_store, sig_log,
                  pulse_log, prev_frame, cfg_err, rect >>

\* snake_game_pause(game)
SnakeGamePause ==
  /\ ReturnPlain("snake_game_pause",
                 IF game.state = "GAME_RUNNING"
                   THEN [game EXCEPT !.state = "GAME_PAUSED"]
                   ELSE game)
  /\ UNCHANGED task
  /\ UNCHANGED << sweep_mode, pc, op, sp, ret_pc, data, flip_list,
                  flip_count, idx, sh_i, F, entry_state, oob_store, sig_log,
                  pulse_log, prev_frame, cfg_err, rect >>

\* snake_game_resume(game)
SnakeGameResume ==
  /\ ReturnPlain("snake_game_resume",
                 IF game.state = "GAME_PAUSED"
                   THEN [game EXCEPT !.state = "GAME_RUNNING"]
                   ELSE game)
  /\ UNCHANGED task
  /\ UNCHANGED << sweep_mode, pc, op, sp, ret_pc, data, flip_list,
                  flip_count, idx, sh_i, F, entry_state, oob_store, sig_log,
                  pulse_log, prev_frame, cfg_err, rect >>

\* snake_game_reset(game)
SnakeGameReset ==
  /\ \E g \in snake_game_init :
       ReturnRendered("snake_game_reset",
                      [g EXCEPT !.moves = game.moves,
                                !.pushes = game.pushes])
  /\ UNCHANGED task
  /\ UNCHANGED << sweep_mode, pc, op, sp, ret_pc, data, flip_list,
                  flip_count, idx, sh_i, F, entry_state, oob_store, sig_log,
                  pulse_log, prev_frame, cfg_err, rect >>

\* snake_game_change_direction(game, new_direction)
SnakeGameChangeDirection ==
  /\ game.pushes < MaxPushes
  /\ \E new_direction \in snake_direction_t :
       ReturnPlain("snake_game_change_direction",
                   [game EXCEPT
                      !.snake.input_buffer =
                        direction_buffer_push(@, new_direction).buffer,
                      !.pushes = @ + 1])
  /\ UNCHANGED task
  /\ UNCHANGED << sweep_mode, pc, op, sp, ret_pc, data, flip_list,
                  flip_count, idx, sh_i, F, entry_state, oob_store, sig_log,
                  pulse_log, prev_frame, cfg_err, rect >>

\* the state test at the head of snake_game_update
UpdateRuns_unless_over(state) == state # "GAME_OVER"

UpdateRuns(state) == state = "GAME_RUNNING"

\* snake_game_update(game)
SnakeGameUpdate ==
  /\ UpdateRuns(game.state) => game.moves < MaxMoves
  /\ IF ~UpdateRuns(game.state)
       THEN ReturnPlain("snake_game_update", game)
       ELSE LET tail_pos_before_move ==
                  game.snake.segments[game.snake.length]
                moved == [game EXCEPT !.snake = move_snake(@),
                                      !.moves = @ + 1]
            IN  IF snake_game_check_collision(moved.snake)
                  THEN ReturnPlain("snake_game_update",
                                   [moved EXCEPT !.state = "GAME_OVER"])
                ELSE IF snake_game_check_food_collision(moved.snake,
                                                        moved.food)
                  THEN LET grown ==
                             Score([moved EXCEPT
                                      !.snake = Grow(@, tail_pos_before_move),
                                      !.food.active = FALSE,
                                      !.eaten = @ + 1])
                       IN  \E food \in snake_game_generate_food(grown.snake) :
                             ReturnRendered("snake_game_update",
                                            [grown EXCEPT !.food = food])
                ELSE ReturnRendered("snake_game_update", moved)
  /\ UNCHANGED task
  /\ UNCHANGED << sweep_mode, pc, op, sp, ret_pc, data, flip_list,
                  flip_count, idx, sh_i, F, entry_state, oob_store, sig_log,
                  pulse_log, prev_frame, cfg_err, rect >>


\* numbers of food items eaten in the games in progress that are explored:
\* before the first level-up, before the speed reaches its minimum, at the
\* minimum, and before and at the largest length
ProgressFoods == { 4, 39, 44, 46, 47 }

\* segment i of a snake laid out from the start position to the left along
\* row 6, back to the right along row 7 and to the left again along row 8
SerpentSegment(i) ==
  IF i <= 14 THEN << 14 - i, 6 >>
  ELSE IF i <= 42 THEN << i - 15, 7 >>
  ELSE << 27 - (i - 43), 8 >>

\* the growth and scoring steps of snake_game_update on a game in
\* progress, the snake laid out as above
FoodEaten(g) ==
  Score([g EXCEPT !.snake = Grow(@, SerpentSegment(@.length + 1)),
                  !.eaten = @ + 1,
                  !.moves = MaxMoves - ProgressMoves,
                  !.pushes = MaxPushes - ProgressPushes])

\* the game g once n food items are eaten in all
RECURSIVE EatFoods(_, _)
EatFoods(g, n) ==
  IF g.eaten >= n THEN g ELSE EatFoods(FoodEaten(g), n)

\* the running game after n updates that ate food, heading right; the
\* food item is placed by RunningGames
GameAfterFoods(n) ==
  EatFoods([state |-> "GAME_RUNNING", score |-> 0, level |-> 1,
            game_speed_ms |-> SNAKE_INITIAL_SPEED_MS, game_buffer |-> {},
            snake |-> init_snake, food |-> NoFood, eaten |-> 0, moves |-> 0,
            pushes |-> 0], n)

\* snakes of the initial length with the head next to a wall and heading
\* for it
WallSnakes ==
  { [init_snake EXCEPT
       !.direction = w[2],
       !.segments = [i \in 1..SNAKE_INITIAL_LENGTH |->
                       IF w[2] \in { "DIR_LEFT", "DIR_RIGHT" }
                         THEN << w[1][1] + (i - 1) * w[3], w[1][2] >>
                         ELSE << w[1][1], w[1][2] + (i - 1) * w[3] >>]] :
      w \in { << << 0, 6 >>, "DIR_LEFT", 1 >>,
              << << 13, 0 >>, "DIR_UP", 1 >>,
              << << GAME_MAX_X, 6 >>, "DIR_RIGHT", -1 >>,
              << << 13, GAME_MAX_Y >>, "DIR_DOWN", -1 >> } }

\* a snake of the initial length away from the start position, heading
\* left
AwaySnake ==
  [init_snake EXCEPT
     !.direction = "DIR_LEFT",
     !.segments = [i \in 1..SNAKE_INITIAL_LENGTH |-> << 20 + (i - 1), 2 >>]]

\* a snake that has eaten once and turned twice: its head is next to its
\* tail
CurledSnake ==
  [init_snake EXCEPT
     !.direction = "DIR_LEFT",
     !.length = SNAKE_INITIAL_LENGTH + 1,
     !.segments = << << 13, 5 >>, << 14, 5 >>, << 14, 6 >>, << 13, 6 >> >>]

\* running games without their food item: fresh, with food eaten, or with
\* the snake at a wall, away from the start position or curled
ProgressGames ==
  { GameAfterFoods(n) : n \in ProgressFoods \cup { 0 } }
    \cup { [GameAfterFoods(0) EXCEPT
              !.snake = snake,
              !.moves = MaxMoves - ProgressMoves,
              !.pushes = MaxPushes - ProgressPushes] :
            snake \in WallSnakes \cup { AwaySnake } }
    \cup { [GameAfterFoods(1) EXCEPT !.snake = CurledSnake] }

\* running games as snake_game_start or an update has rendered them, with
\* a food item snake_game_generate_food can have placed
RunningGames ==
  UNION { { Rendered([g EXCEPT !.food = food]) :
              food \in snake_game_generate_food(g.snake) } :
          g \in ProgressGames }

\* a caller such as snake_game_demo has a game running on the display
InitSnake ==
  /\ DriverIdle
  /\ game \in RunningGames
  /\ pixel_state = game.game_buffer
  /\ level = LevelAfter(ClearedLevel, {}, game.game_buffer)
  /\ unit = NoUnit
  /\ task = NoTask

NextSnake ==
  \/ SnakeGameChangeDirection
  \/ SnakeGameUpdate
  \/ SnakeGameReset

SpecSnake == InitSnake /\ [][NextSnake]_vars

(***************************************************************************)
(* The control functions of the game called in any order on a game that    *)
(* snake_game_init has set up, as a caller of snake.h may do.              *)
(***************************************************************************)

\* running games with the snake at a wall
WallGames == { g \in RunningGames : g.snake \in WallSnakes }

InitControl ==
  /\ \/ /\ game \in { [g EXCEPT !.moves = MaxMoves - ProgressMoves,
                               !.pushes = MaxPushes - ProgressPushes] :
                      g \in snake_game_init }
        /\ DisplayReady
     \/ /\ game \in WallGames
        /\ DriverIdle
        /\ pixel_state = game.game_buffer
        /\ level = LevelAfter(ClearedLevel, {}, game.game_buffer)
  /\ unit = NoUnit
  /\ task = NoTask

NextControl ==
  \/ SnakeGameStart
  \/ SnakeGamePause
  \/ SnakeGameResume
  \/ SnakeGameReset
  \/ SnakeGameChangeDirection
  \/ SnakeGameUpdate

SpecControl == InitControl /\ [][NextControl]_vars

(***************************************************************************)
(* The interactive game: snake_game_run_interactive calls                  *)
(* snake_game_update from the game loop, statement by statement, while     *)
(* snake_input_callback runs in the receive context and can start or reset *)
(* the game or buffer a direction between any two of these statements. A   *)
(* callback runs to its end here, rendering included (the overlap of two   *)
(* renderings is explored by SpecGame).                                    *)
(***************************************************************************)

\* input events explored in one run
MaxEvents == 2

\* the game loop between two updates; cb_during tells that a callback has
\* run inside an update
PlayLoopIdle ==
  [pc |-> "idle", tail_pos_before_move |-> NoFoodPosition,
   new_pos |-> NoFoodPosition, cb_during |-> FALSE]

PlayReceiveIdle == [pc |-> "cb_idle", events |-> 0]

InitPlay ==
  /\ DriverIdle
  /\ game \in RunningGames
  /\ pixel_state = game.game_buffer
  /\ level = LevelAfter(ClearedLevel, {}, game.game_buffer)
  /\ unit = NoUnit
  /\ task = [loop |-> PlayLoopIdle, wifi |-> PlayReceiveIdle]

\* the game is rendered and the display brought to it, in either context
PlayRendered(g) ==
  LET r == Rendered(g)
  IN  /\ game' = r
      /\ pixel_state' = r.game_buffer
      /\ level' = LevelAfterUpdate(r.game_buffer)

\* main loop of snake_game_run_interactive: the update is due and the game
\* is running
PlayLoopTick ==
  /\ task.loop.pc = "idle"
  /\ game.state = "GAME_RUNNING"
  /\ game.moves < MaxMoves
  /\ task' = [task EXCEPT !.loop.pc = "update"]
  /\ UNCHANGED << pixel_state, level, game >>
  /\ UNCHANGED driver_locals

\* snake_game_update up to the food test: the state test, move_snake, the
\* collision test and the food collision test
PlayUpdateMove ==
  /\ task.loop.pc = "update"
  /\ IF ~UpdateRuns(game.state)
       THEN /\ task' = [task EXCEPT !.loop.pc = "after_update"]
            /\ UNCHANGED game
       ELSE LET moved == [game EXCEPT !.snake = move_snake(@),
                                      !.moves = @ + 1]
            IN  /\ task' = [task EXCEPT
                              !.loop.tail_pos_before_move =
                                game.snake.segments[game.snake.length],
                              !.loop.pc =
                                IF snake_game_check_collision(moved.snake)
                                  THEN "after_update"
                                ELSE IF snake_game_check_food_collision(
                                          moved.snake, moved.food)
                                  THEN "grow"
                                ELSE "render"]
                /\ game' =
                     IF snake_game_check_collision(moved.snake)
                       THEN [moved EXCEPT !.state = "GAME_OVER"]
                     ELSE IF snake_game_check_food_collision(moved.snake,
                                                             moved.food)
                       THEN [moved EXCEPT !.food.active = FALSE,
                                          !.eaten = @ + 1]
                     ELSE moved
  /\ UNCHANGED << pixel_state, level >>
  /\ UNCHANGED driver_locals

\* snake_game_update: the snake grows
PlayGrow ==
  /\ task.loop.pc = "grow"
  /\ game' = [game EXCEPT
                !.snake = Grow(@, task.loop.tail_pos_before_move)]
  /\ task' = [task EXCEPT !.loop.pc = "score"]
  /\ UNCHANGED << pixel_state, level >>
  /\ UNCHANGED driver_locals

\* snake_game_update: game->score += 10
PlayScore ==
  /\ task.loop.pc = "score"
  /\ game' = [game EXCEPT !.score = @ + 10]
  /\ task' = [task EXCEPT !.loop.pc = "level_up"]
  /\ UNCHANGED << pixel_state, level >>
  /\ UNCHANGED driver_locals

\* snake_game_update: the level-up test on the score as it is now, and the
\* level and speed change
PlayLevelUp ==
  /\ task.loop.pc = "level_up"
  /\ game' = LevelUp(game)
  /\ task' = [task EXCEPT !.loop.pc = "food"]
  /\ UNCHANGED << pixel_state, level >>
  /\ UNCHANGED driver_locals

\* snake_game_generate_food up to the position test: the slot is cleared
\* and a position that is not in the snake is found
PlayFoodPick ==
  /\ task.loop.pc = "food"
  /\ \E food \in snake_game_generate_food(game.snake) :
       /\ game' = [game EXCEPT !.food = NoFood]
       /\ task' = [task EXCEPT
                     !.loop.new_pos = food.position,
                     !.loop.pc = IF food.active THEN "food_store"
                                                ELSE "render"]
  /\ UNCHANGED << pixel_state, level >>
  /\ UNCHANGED driver_locals

\* snake_game_generate_food: the position found is stored and the food
\* item activated
PlayFoodStore ==
  /\ task.loop.pc = "food_store"
  /\ game' = [game EXCEPT
                !.food = [position |-> task.loop.new_pos, active |-> TRUE]]
  /\ task' = [task EXCEPT !.loop.pc = "render"]
  /\ UNCHANGED << pixel_state, level >>
  /\ UNCHANGED driver_locals

\* snake_game_update: snake_game_render ends the update
PlayRender ==
  /\ task.loop.pc = "render"
  /\ PlayRendered(game)
  /\ task' = [task EXCEPT !.loop.pc = "after_update"]
  /\ UNCHANGED driver_locals

\* main loop after the update: on game over the game-over screen is shown
\* and the game reset, with the start screen rendered
PlayAfterUpdate ==
  /\ task.loop.pc = "after_update"
  /\ IF game.state = "GAME_OVER"
       THEN \E g \in snake_game_init :
              PlayRendered([g EXCEPT !.moves = game.moves,
                                     !.pushes = game.pushes])
       ELSE UNCHANGED << pixel_state, level, game >>
  /\ task' = [task EXCEPT !.loop.pc = "idle"]
  /\ UNCHANGED driver_locals

\* the direction snake_input_callback buffers for a command
CommandDirection(command) ==
  CASE command = "INPUT_CMD_UP" -> "DIR_UP"
    [] command = "INPUT_CMD_DOWN" -> "DIR_DOWN"
    [] command = "INPUT_CMD_LEFT" -> "DIR_LEFT"
    [] command = "INPUT_CMD_RIGHT" -> "DIR_RIGHT"

\* snake_input_callback on an event of the wireless input, run to its end
PlayCallback ==
  /\ task.wifi.events < MaxEvents
  /\ task' = [task EXCEPT
                !.wifi.events = @ + 1,
                !.loop.cb_during =
                  @ \/ task.loop.pc \notin { "idle", "after_update" }]
  /\ \E command \in EspnowCommands :
       IF game.state = "GAME_INIT"
         THEN \* snake_game_start
              PlayRendered([game EXCEPT !.state = "GAME_RUNNING"])
       ELSE IF game.state # "GAME_RUNNING"
         THEN UNCHANGED << pixel_state, level, game >>
       ELSE IF command \in DirectionCommands
         THEN /\ game' =
                   [game EXCEPT
                      !.snake.input_buffer =
                        direction_buffer_push(
                          @, CommandDirection(command)).buffer]
              /\ UNCHANGED << pixel_state, level >>
       ELSE IF command = "INPUT_CMD_RESET"
         THEN \* snake_game_reset
              \E g \in snake_game_init :
                PlayRendered([g EXCEPT !.moves = game.moves,
                                       !.pushes = game.pushes])
       ELSE UNCHANGED << pixel_state, level, game >>
  /\ UNCHANGED driver_locals

NextPlay ==
  \/ PlayLoopTick
  \/ PlayUpdateMove
  \/ PlayGrow
  \/ PlayScore
  \/ PlayLevelUp
  \/ PlayFoodPick
  \/ PlayFoodStore
  \/ PlayRender
  \/ PlayAfterUpdate
  \/ PlayCallback

SpecPlay == InitPlay /\ [][NextPlay]_vars

(***************************************************************************)
(* Vocabulary of the properties                                            *)
(***************************************************************************)
\* coordinates of the pulses issued so far by the running public call
PulseCells == { << pulse_log[k][1], pulse_log[k][2] >> : k \in DOMAIN pulse_log }

\* cells in which the frame handed to the running update differs from the
\* mirror found at entry
EntryDiff == SymDiff(entry_state, F)

\* a flip_dot_set_pixel call has run to its end and its log is still there
SetPixelReturned ==
  /\ sig_log # << >>
  /\ \A k \in DOMAIN SetPixelSteps : pc # SetPixelSteps[k]

\* protocol phase of one logged event of flip_dot_set_pixel
Phase(e) ==
  CASE e[1] \in { "1A0", "1A1" } -> 1
    [] e[1] \in { "ROW_A0", "ROW_A1", "ROW_A2" } -> 2
    [] e[1] \in { "2A0", "2A1" } -> 3
    [] e[1] \in { "COL_A0", "COL_A1", "COL_A2", "COL_A3" } -> 4
    [] e[1] = "2E" /\ e[2] = 1 -> 5
    [] e[1] = "2E" /\ e[2] = 0 -> 6
    [] e[1] = "pixel_state" -> 7
    [] OTHER -> 0

PhaseCount(n) == Cardinality({ k \in DOMAIN sig_log : Phase(sig_log[k]) = n })

\* number read off the address lines A0 (least significant) .. of a decoder
LineValue(names) ==
  IF Len(names) = 2
    THEN level[names[1]] + 2 * level[names[2]]
    ELSE level[names[1]] + 2 * level[names[2]] + 4 * level[names[3]]

\* bit k of a number
BitOf(number, k) == (number \div (2 ^ k)) % 2

\* exclusive or of a 0/1 level and a flag
Xor(value, flag) == (value + Bit(flag)) % 2

\* every cell of the display
AllCells == (0..(DISPLAY_HEIGHT - 1)) \X (0..(DISPLAY_WIDTH - 1))

\* the cells of a rectangle
RectCells(row_start, row_end, col_start, col_end) ==
  (row_start..row_end) \X (col_start..col_end)

\* one pulse of polarity value per cell of a rectangle, row after row, each
\* row by increasing column
RowMajorPulses(row_start, row_end, col_start, col_end, value) ==
  LET width  == col_end - col_start + 1
      height == row_end - row_start + 1
  IN  [ k \in 1..(height * width) |->
          << row_start + ((k - 1) \div width),
             col_start + ((k - 1) % width), value >> ]

\* the running call has issued a reset pulse for cell
ResetPulsed(cell) ==
  \E k \in DOMAIN pulse_log : pulse_log[k] = << cell[1], cell[2], FALSE >>

\* all four address steps of the running flip_dot_set_pixel are done
Addressed == pc \in { "sp_enable", "sp_disable", "sp_store", "sp_ret" }

(***************************************************************************)
(* C1: a flip_dot_update_display(B) that follows a completed               *)
(* flip_dot_update_display(A) issues exactly as many enable pulses as      *)
(* there are cells in which A and B differ, in every sweep mode.           *)
(***************************************************************************)
C1_ExactFlipCount ==
  (pc = "ud_ret" /\ prev_frame # NoFrame)
    => Len(pulse_log) = Cardinality(SymDiff(prev_frame, F))

(***************************************************************************)
(* C2: when flip_dot_update_display(display, F) returns, the mirror equals *)
(* F in every cell, whatever it held before and whichever the sweep mode.  *)
(***************************************************************************)
C2_MirrorEqualsFrame == pc = "ud_ret" => pixel_state = F

(***************************************************************************)
(* C3: an update with a frame equal to the current mirror issues no pulse  *)
(* and leaves the mirror unchanged, in every sweep mode; the second of two *)
(* updates with the same frame is pulse-free.                              *)
(***************************************************************************)
C3_NoOpUpdate ==
  /\ (pc = "ud_ret" /\ F = entry_state)
       => (pulse_log = << >> /\ pixel_state = entry_state)
  /\ (pc = "ud_ret" /\ prev_frame = F) => pulse_log = << >>

(***************************************************************************)
(* C4: in every sweep mode the coordinates pulsed during one update are a  *)
(* permutation of the diff set computed at entry: each differing cell is   *)
(* pulsed exactly once and no other cell is pulsed.                        *)
(***************************************************************************)
C4_SweepIsPermutation ==
  pc = "ud_ret"
    => /\ PulseCells = EntryDiff
       /\ Len(pulse_log) = Cardinality(EntryDiff)

(***************************************************************************)
(* C5: flip_dot_set_pixel with row >= DISPLAY_HEIGHT or                    *)
(* col >= DISPLAY_WIDTH writes no address-select line and does not assert  *)
(* the enable line.                                                        *)
(***************************************************************************)
C5_OutOfRangeRejected ==
  (op = "set_pixel" /\ ~InRange(sp.row, sp.col))
    => \A k \in DOMAIN sig_log : sig_log[k][1] \notin Pins

(***************************************************************************)
(* C6: flip_dot_set_pixel with an out-of-range row or column mutates       *)
(* nothing: the mirror and all other memory are as before the call.        *)
(***************************************************************************)
C6_OutOfRangeNoMutation ==
  (pc = "sp_ret" /\ ~InRange(sp.row, sp.col))
    => (pixel_state = entry_state /\ ~oob_store)

(***************************************************************************)
(* C7: in COLUMN sweep mode the diff cells that share a column are pulsed  *)
(* in increasing row order (the sort by column is stable).                 *)
(***************************************************************************)
C7_ColumnTiesRowMajor ==
  (op = "update" /\ sweep_mode = "SWEEP_COL")
    => \A i, j \in DOMAIN pulse_log :
         (i < j /\ pulse_log[i][2] = pulse_log[j][2])
           => pulse_log[i][1] < pulse_log[j][1]

(***************************************************************************)
(* C8: in COLUMN sweep mode the pulses of one update are issued in         *)
(* non-decreasing column index.                                            *)
(***************************************************************************)
C8_ColumnNonDecreasing ==
  (op = "update" /\ sweep_mode = "SWEEP_COL")
    => \A i, j \in DOMAIN pulse_log :
         i < j => pulse_log[i][2] <= pulse_log[j][2]

\* a COLUMN update has returned after pulsing cells of several columns in
\* an order the sort had to produce
C8_Witness ==
  /\ pc = "ud_ret"
  /\ sweep_mode = "SWEEP_COL"
  /\ Len(pulse_log) >= 2
  /\ pulse_log[1][2] < pulse_log[Len(pulse_log)][2]
  /\ flip_list # DiffList(F, entry_state)

(***************************************************************************)
(* C9: in ROW sweep mode the differing cells are pulsed in row-major scan  *)
(* order: increasing row, and increasing column within a row.              *)
(***************************************************************************)
C9_RowMajorOrder ==
  (op = "update" /\ sweep_mode = "SWEEP_ROW")
    => \A i, j \in DOMAIN pulse_log :
         i < j => \/ pulse_log[i][1] < pulse_log[j][1]
                  \/ /\ pulse_log[i][1] = pulse_log[j][1]
                     /\ pulse_log[i][2] < pulse_log[j][2]

\* a ROW update has returned after pulsing a cell of an upper row before a
\* cell of a lower row that lies in a smaller column
C9_Witness ==
  /\ pc = "ud_ret"
  /\ sweep_mode = "SWEEP_ROW"
  /\ \E i, j \in DOMAIN pulse_log :
       /\ i < j
       /\ pulse_log[i][1] < pulse_log[j][1]
       /\ pulse_log[i][2] > pulse_log[j][2]
  /\ pixel_state = F

(***************************************************************************)
(* C10: every flip_dot_set_pixel call works in this order: row group       *)
(* select lines, row position lines, column group select lines, column     *)
(* position lines, assert 2E, deassert 2E, and only then the store into    *)
(* pixel_state; 2E is asserted exactly once and deasserted exactly once.   *)
(***************************************************************************)
C10_StepOrder ==
  /\ \A i, j \in DOMAIN sig_log :
       i < j => (0 < Phase(sig_log[i]) /\ Phase(sig_log[i]) <= Phase(sig_log[j]))
  /\ PhaseCount(5) <= 1
  /\ PhaseCount(6) <= 1
  /\ SetPixelReturned
       => /\ \A n \in 1..7 : PhaseCount(n) >= 1
          /\ PhaseCount(5) = 1
          /\ PhaseCount(6) = 1
          /\ PhaseCount(7) = 1

\* a single-pixel call on an in-range cell has run to its end
C10_Witness ==
  /\ pc = "sp_ret"
  /\ InRange(sp.row, sp.col)
  /\ Len(sig_log) = 14
  /\ pulse_log = << << sp.row, sp.col, sp.value >> >>

C13_GroupOffsetDecomposition ==
  (Addressed /\ InRange(sp.row, sp.col)) =>
    LET row_group  == LineValue(<< "1A0", "1A1" >>)
        row_offset == LineValue(<< "ROW_A0", "ROW_A1", "ROW_A2" >>) - 1
        col_group  == LineValue(<< "2A0", "2A1" >>)
        col_offset == LineValue(<< "COL_A0", "COL_A1", "COL_A2" >>) - 1
    IN  /\ row_group = sp.row \div 7 /\ row_offset = sp.row % 7
        /\ col_group = sp.col \div 7 /\ col_offset = sp.col % 7
        /\ sp.row = 7 * row_group + row_offset
        /\ sp.col = 7 * col_group + col_offset
        /\ row_group \in 0..1 /\ col_group \in 0..3
        /\ row_offset \in 0..6 /\ col_offset \in 0..6
        /\ (sp.row = 8 /\ sp.col = 10) =>
             << row_group, row_offset, col_group, col_offset >>
               = << 1, 1, 1, 3 >>

C13_Witness ==
  /\ pc = "sp_ret"
  /\ sp.row = 8 /\ sp.col = 10
  /\ LineValue(<< "2A0", "2A1" >>) = 1
  /\ LineValue(<< "COL_A0", "COL_A1", "COL_A2" >>) = 4

(***************************************************************************)
(* C14: for every in-range (row, col, value) flip_dot_set_pixel selects    *)
(* position row_offset + 1 + 8p on the row decoder and col_offset + 1 + 8p *)
(* on the column decoder with the same polarity bit p = NOT value; the     *)
(* position is in 1..7 or 9..15, never 0 or 8.  The column position is     *)
(* read off the four column address lines; the row decoder has three       *)
(* lines, which carry the row position modulo 8.                           *)
(***************************************************************************)
C14_OutputPositions ==
  (Addressed /\ InRange(sp.row, sp.col)) =>
    LET p       == Bit(~sp.value)
        row_pos == OutputPos(row_grp_pixel(sp.row), sp.value)
        col_pos == LineValue(<< "COL_A0", "COL_A1", "COL_A2" >>)
                     + 8 * level["COL_A3"]
    IN  /\ row_pos = (sp.row % 7) + 1 + 8 * p
        /\ col_pos = (sp.col % 7) + 1 + 8 * p
        /\ row_pos \div 8 = col_pos \div 8
        /\ LineValue(<< "ROW_A0", "ROW_A1", "ROW_A2" >>) = row_pos % 8
        /\ row_pos \in (1..7) \cup (9..15)
        /\ col_pos \in (1..7) \cup (9..15)

C14_Witness ==
  /\ pc = "sp_ret"
  /\ sp.value
  /\ sp.row = 12 /\ sp.col = 27
  /\ level["COL_A3"] = 0
  /\ LineValue(<< "COL_A0", "COL_A1", "COL_A2" >>) = 7

(***************************************************************************)
(* C15: demux_74HC4514_set_output(position), position in 0..15, writes     *)
(* logical bit 0 to A0, bit 1 to A1, bit 2 to A2 and, when A3 is bound     *)
(* (the column decoder), the complement of bit 3 to A3 (seen on the pin    *)
(* through the pin's inversion); when A3 is absent (the row decoder) no    *)
(* line other than A0..A2 changes and position + 8 gives the same line     *)
(* states, so the row lines do not depend on the polarity.                 *)
(***************************************************************************)
C15_SetOutputLines ==
  [][ unit'.fn = "set_output" =>
        LET pos  == unit'.output_pos
            axis == unit'.axis
            A(n) == axis \o "_A" \o n
        IN  /\ level'[A("0")] = BitOf(pos, 0)
            /\ level'[A("1")] = BitOf(pos, 1)
            /\ level'[A("2")] = BitOf(pos, 2)
            /\ axis = "COL" =>
                 level'["COL_A3"]
                   = Xor(1 - BitOf(pos, 3), PinInverted("COL_A3"))
            /\ axis = "ROW" =>
                 /\ \A p \in Pins \ { A("0"), A("1"), A("2") } :
                      level'[p] = level[p]
                 /\ level' = ApplyWrites(level,
                               demux_74HC4514_set_output(axis,
                                                         (pos + 8) % 16))
    ]_vars

C15_Witness ==
  /\ unit.fn = "set_output"
  /\ unit.axis = "ROW"
  /\ unit.output_pos = 13
  /\ LineValue(<< "ROW_A0", "ROW_A1", "ROW_A2" >>) = 5
  /\ level["COL_A3"] = 1

(***************************************************************************)
(* C16: gpio_write(pin, level, inverted) drives the pin to level XOR       *)
(* inverted for all four combinations; writing the same logical level a    *)
(* second time leaves every physical level unchanged; the physical level   *)
(* of the column A3 pin after a column position has been selected equals   *)
(* bit 3 of that position.                                                 *)
(***************************************************************************)
C16_GpioWriteLevel ==
  [][ /\ unit'.fn = "gpio_write" =>
           /\ level'[unit'.pin] = Xor(unit'.value, unit'.is_inverted)
           /\ unit'.n = 2 => level' = level
      /\ (unit'.fn = "set_output" /\ unit'.axis = "COL") =>
           level'["COL_A3"] = BitOf(unit'.output_pos, 3)
    ]_vars

C16_Witness ==
  /\ unit.fn = "gpio_write"
  /\ unit.pin = "COL_A3"
  /\ unit.is_inverted
  /\ unit.value = 1
  /\ unit.n = 2
  /\ level["COL_A3"] = 0

(***************************************************************************)
(* C17 (as stated): flip_dot_init zeroes the whole mirror and performs an  *)
(* initial full-display clear: when it returns, every cell has received a  *)
(* reset pulse.                                                            *)
(***************************************************************************)
C17_InitClearsDisplay ==
  pc = "init_ret" =>
    /\ pixel_state = {}
    /\ \A cell \in AllCells : ResetPulsed(cell)

(***************************************************************************)
(* C17 (amended): flip_dot_init zeroes the whole mirror and issues no      *)
(* pulse; the initial full-display clear is the flip_dot_clear_display     *)
(* call app_main makes after flip_dot_init has returned, and when that     *)
(* call returns every cell has received exactly one reset pulse and the    *)
(* mirror is all zero.                                                     *)
(***************************************************************************)
C17_ClearFollowsInit ==
  /\ pc = "init_ret" => pixel_state = {} /\ pulse_log = << >>
  /\ pc = "cd_ret" =>
       /\ pixel_state = {}
       /\ \A cell \in AllCells : ResetPulsed(cell)
       /\ Len(pulse_log) = DISPLAY_HEIGHT * DISPLAY_WIDTH

C17_Witness ==
  /\ pc = "cd_ret"
  /\ op = "clear"
  /\ Len(pulse_log) = DISPLAY_HEIGHT * DISPLAY_WIDTH
  /\ ResetPulsed(<< DISPLAY_HEIGHT - 1, DISPLAY_WIDTH - 1 >>)

(***************************************************************************)
(* C18: flip_dot_clear_display behaves exactly like                        *)
(* flip_dot_set_rows_cols(display, 0, DISPLAY_HEIGHT - 1, 0,               *)
(* DISPLAY_WIDTH - 1, false): each issues exactly rows x cols pulses, one  *)
(* per cell in row-major order with reset polarity, whatever the mirror    *)
(* held before, and leaves every mirror cell 0.                            *)
(***************************************************************************)
C18_ClearIsFullReset ==
  LET expected == RowMajorPulses(0, DISPLAY_HEIGHT - 1, 0, DISPLAY_WIDTH - 1,
                                 FALSE)
  IN  /\ pc = "cd_ret" => pulse_log = expected /\ pixel_state = {}
      /\ ( /\ pc = "fr_ret"
           /\ RectCells(rect.row_start, rect.row_end,
                        rect.col_start, rect.col_end) = AllCells
           /\ ~rect.pixel_value )
          => pulse_log = expected /\ pixel_state = {}

C18_Witness ==
  /\ pc = "cd_ret"
  /\ entry_state # {}
  /\ Len(pulse_log) = DISPLAY_HEIGHT * DISPLAY_WIDTH
  /\ pixel_state = {}

(***************************************************************************)
(* C19: flip_dot_set_rows_cols(r0, r1, c0, c1, v) with r0 <= r1 < rows and *)
(* c0 <= c1 < cols pulses every cell of the rectangle exactly once, so     *)
(* (r1 - r0 + 1) * (c1 - c0 + 1) pulses, also the cells whose mirror value *)
(* already is v; it sets exactly those mirror cells to v and leaves the    *)
(* mirror outside the rectangle unchanged.                                 *)
(***************************************************************************)
C19_FillRectangle ==
  pc = "fr_ret" =>
    LET R == RectCells(rect.row_start, rect.row_end,
                       rect.col_start, rect.col_end)
    IN  /\ Len(pulse_log) = (rect.row_end - rect.row_start + 1)
                              * (rect.col_end - rect.col_start + 1)
        /\ \A cell \in R :
             Cardinality({ k \in DOMAIN pulse_log :
                             pulse_log[k]
                               = << cell[1], cell[2], rect.pixel_value >> })
               = 1
        /\ PulseCells = R
        /\ pixel_state = IF rect.pixel_value THEN entry_state \cup R
                                             ELSE entry_state \ R

C19_Witness ==
  /\ pc = "fr_ret"
  /\ rect.pixel_value
  /\ rect.row_end = 1
  /\ << 0, 10 >> \in entry_state
  /\ << 8, 10 >> \in pixel_state
  /\ Len(pulse_log) = 4

(***************************************************************************)
(* C20: if a gpio_config call fails during flip_dot_init, initialization   *)
(* fails and the caller learns of it: afterwards no signal is written, no  *)
(* pulse is issued and no display operation runs on the display object.    *)
(***************************************************************************)
C20_InitFailureSurfaced ==
  cfg_err =>
    /\ level = ResetLevel
    /\ pulse_log = << >>
    /\ op = "none"

(***************************************************************************)
(* C21: within flip_dot_update_display the bulk copy of the frame into the *)
(* mirror happens only after the last flip of the flip list has been       *)
(* issued, and at that moment the mirror already equals F in every cell,   *)
(* so the copy (which copies what the data pointer refers to) changes no   *)
(* cell.                                                                   *)
(***************************************************************************)
C21_CopyChangesNothing ==
  pc = "ud_memcpy" =>
    /\ idx = flip_count
    /\ Len(pulse_log) = flip_count
    /\ pixel_state = F
    /\ data = pixel_state

\* value of the most recent pulse the running call issued to cell (FALSE
\* when it issued none)
LastPulseValue(cell) ==
  LET K == { k \in DOMAIN pulse_log :
               << pulse_log[k][1], pulse_log[k][2] >> = cell }
  IN  IF K = {} THEN FALSE
      ELSE pulse_log[CHOOSE k \in K : \A m \in K : m <= k][3]

(***************************************************************************)
(* C22: the mirror changes only through flip pulses.  The mirror is all 0  *)
(* after flip_dot_init; the claim is checked call by call: when a          *)
(* set_pixel, update, clear or fill call with in-range coordinates and a   *)
(* 0/1 frame returns, every cell the call pulsed holds the value of the    *)
(* most recent pulse issued to it, and every cell it did not pulse holds   *)
(* the value it had when the call was entered.                             *)
(***************************************************************************)
C22_MirrorFollowsPulses ==
  ( /\ pc \in { "sp_ret", "ud_ret", "cd_ret", "fr_ret" }
    /\ op = "set_pixel" => InRange(sp.row, sp.col) )
  =>
    /\ \A cell \in PulseCells : (cell \in pixel_state) = LastPulseValue(cell)
    /\ pixel_state \ PulseCells = entry_state \ PulseCells

(***************************************************************************)
(* C23: address decoding is injective.  When flip_dot_set_pixel has        *)
(* written its select lines for an in-range (row, col, value), the levels  *)
(* of the group-select and position-select lines are those of no other     *)
(* in-range (row, col) with either value, and not those of the same        *)
(* (row, col) with the opposite value.                                     *)
(***************************************************************************)
C23_DecodingInjective ==
  (pc = "sp_enable" /\ InRange(sp.row, sp.col)) =>
    /\ level = ApplyWrites(ApplyWrites(ResetLevel, InitEnableWrites),
                           SelectWrites(sp.row, sp.col, sp.value))
    /\ \A cell \in AllCells, value \in BOOLEAN :
         << cell[1], cell[2], value >> # << sp.row, sp.col, sp.value >>
           => level # ApplyWrites(ApplyWrites(ResetLevel, InitEnableWrites),
                                  SelectWrites(cell[1], cell[2], value))

C23_Witness ==
  /\ pc = "sp_enable"
  /\ sp.row = 7 /\ sp.col = 21
  /\ ~sp.value
  /\ LineValue(<< "1A0", "1A1" >>) = 1
  /\ LineValue(<< "2A0", "2A1" >>) = 3
  /\ level["COL_A3"] = 1


\* a context is inside flip_dot_update_display: from its first statement to
\* the memcpy, the calls of flip_dot_set_pixel included
InUpdateDisplay(c) ==
  task[c].pc \in { "ud_enter", "ud_flip", "sp_select", "sp_enable",
                   "sp_disable", "sp_store", "ud_memcpy" }

(***************************************************************************)
(* C24: in the running program no reachable interleaving has the input     *)
(* callback's context and the game loop both inside                        *)
(* flip_dot_update_display.                                                *)
(***************************************************************************)
C24_UpdateNotReentered ==
  ~(InUpdateDisplay("loop") /\ InUpdateDisplay("wifi"))


\* snake_input_callback runs on an event with this command in this state
CallbackRuns(command, state) ==
  /\ task.wifi.pc = "cb_run"
  /\ task.wifi.event.command = command
  /\ game.state = state
  /\ task'.wifi.pc # "cb_run"

(***************************************************************************)
(* C25: the pause command is a toggle.  INPUT_CMD_PAUSE delivered to       *)
(* snake_input_callback while GAME_RUNNING moves the game to GAME_PAUSED,  *)
(* delivered while GAME_PAUSED it returns the game to GAME_RUNNING, and    *)
(* INPUT_CMD_RESET delivered while GAME_PAUSED resets the game (GAME_INIT).*)
(***************************************************************************)
C25_PauseToggles ==
  [][ /\ CallbackRuns("INPUT_CMD_PAUSE", "GAME_RUNNING")
           => game'.state = "GAME_PAUSED"
      /\ CallbackRuns("INPUT_CMD_PAUSE", "GAME_PAUSED")
           => game'.state = "GAME_RUNNING"
      /\ CallbackRuns("INPUT_CMD_RESET", "GAME_PAUSED")
           => game'.state = "GAME_INIT" ]_vars


\* context c performs the group-select and position-select writes of
\* flip_dot_set_pixel in this step
WritesSelectLines(c) ==
  /\ task[c].pc = "sp_select"
  /\ task'[c].pc = "sp_enable"

(***************************************************************************)
(* C28: in the whole program (game loop plus input callback) no            *)
(* group-select or position-select address line is written while the pulse *)
(* enable line 2E is asserted.                                             *)
(***************************************************************************)
C28_SelectWrittenWithEnableLow ==
  [][ \A c \in Contexts : WritesSelectLines(c) => level["2E"] = 0 ]_vars


(***************************************************************************)
(* C27: during the reorder step of flip_dot_update_display every index     *)
(* into flip_list lies in 0..flip_count-1, for every sweep mode and diff   *)
(* size (the shuffle body runs with i = sh_i > 0 and j <= i), and          *)
(* flip_count never exceeds DISPLAY_HEIGHT * DISPLAY_WIDTH.                *)
(***************************************************************************)
C27_ShuffleIndexInBounds ==
  /\ (pc = "ud_shuffle" /\ sh_i > 0) => sh_i <= flip_count - 1
  /\ flip_count <= DISPLAY_HEIGHT * DISPLAY_WIDTH


(***************************************************************************)
(* C29: flip_dot_debug_pixel_calc computes, for every (row, col, value),   *)
(* the row and column output positions flip_dot_set_pixel drives for that  *)
(* (row, col, value): the column position on the four column address       *)
(* lines, the row position (modulo 8 on the three row address lines).      *)
(***************************************************************************)
C29_DebugCalcMatchesDriver ==
  unit.fn = "debug_pixel_calc" =>
    /\ unit.row_output_pos = OutputPos(row_grp_pixel(sp.row), sp.value)
    /\ unit.row_output_pos % 8
         = LineValue(<< "ROW_A0", "ROW_A1", "ROW_A2" >>)
    /\ unit.col_output_pos
         = LineValue(<< "COL_A0", "COL_A1", "COL_A2" >>)
             + 8 * level["COL_A3"]


(***************************************************************************)
(* C26: the enable pulse is held for the configured duration.  For every   *)
(* flip_time_us the delay requested between raising and lowering 2E,       *)
(* converted back to microseconds (ticks x tick period), is at least       *)
(* flip_time_us, and it is not zero when flip_time_us > 0.                 *)
(***************************************************************************)
C26_PulseHeldForFlipTime ==
  unit.fn = "delay_us" =>
    /\ unit.ticks * portTICK_PERIOD_MS * 1000 >= unit.us
    /\ unit.us > 0 => unit.ticks > 0


\* the rectangle of the running flip_dot_set_rows_cols call has no cell
EmptyRect ==
  rect.row_start > rect.row_end \/ rect.col_start > rect.col_end

(***************************************************************************)
(* C30: flip_dot_set_rows_cols terminates for every combination of 8-bit   *)
(* arguments, and it issues no pulse when row_start > row_end or           *)
(* col_start > col_end.                                                    *)
(***************************************************************************)
C30_FillTerminates ==
  /\ <>(pc = "finished")
  /\ [](op = "fill" /\ EmptyRect => pulse_log = << >>)


\* count agrees with head and tail of the ring
CountMatchesRing(buffer) ==
  buffer.count =
    IF buffer.count = DIRECTION_BUFFER_SIZE
      THEN DIRECTION_BUFFER_SIZE
      ELSE (buffer.head - buffer.tail + DIRECTION_BUFFER_SIZE)
             % DIRECTION_BUFFER_SIZE

(***************************************************************************)
(* C31: the direction buffer is a bounded FIFO.  After any sequence of     *)
(* init, push and pop by one context 0 <= count <= DIRECTION_BUFFER_SIZE   *)
(* and count = (head - tail) mod DIRECTION_BUFFER_SIZE (or the size when   *)
(* full); push on a full buffer returns false and changes nothing, pop on  *)
(* an empty buffer returns false and changes nothing, and successful pops  *)
(* return the pushed directions in push order.                             *)
(***************************************************************************)
C31_BoundedFifo ==
  LET b == game.input_buffer
  IN  /\ b.count \in 0..DIRECTION_BUFFER_SIZE
      /\ CountMatchesRing(b)
      /\ b.count = Len(game.fifo)
      /\ unit.fn = "direction_buffer_push" =>
           /\ unit.ret = (unit.before.count < DIRECTION_BUFFER_SIZE)
           /\ ~unit.ret => b = unit.before
      /\ unit.fn = "direction_buffer_pop" =>
           /\ unit.ret = (unit.before.count > 0)
           /\ ~unit.ret => b = unit.before
           /\ unit.ret => unit.direction = Head(unit.fifo_before)

C31_Witness ==
  /\ unit.fn = "direction_buffer_pop"
  /\ unit.ret
  /\ unit.before.count = DIRECTION_BUFFER_SIZE
  /\ unit.before.tail = 2
  /\ unit.direction = "DIR_LEFT"
  /\ unit.fifo_before[2] = "DIR_UP"


(***************************************************************************)
(* C32: when direction_buffer_push runs in the input-callback context      *)
(* while direction_buffer_pop runs in the game loop, with their accesses   *)
(* to count, head and tail interleaved, then once both have returned count *)
(* equals the number of buffered directions: no pushed direction is lost   *)
(* or duplicated and no empty slot is popped.                              *)
(***************************************************************************)
C32_CountSurvivesInterleaving ==
  (task.loop.pc = "idle" /\ task.wifi.pc = "idle") =>
    /\ game.input_buffer.count = Len(game.fifo)
    /\ CountMatchesRing(game.input_buffer)
    /\ ~game.lost
    /\ ~game.empty_pop


\* the step is a snake_game_update call that moved the snake
UpdateMoved ==
  /\ game.state = "GAME_RUNNING"
  /\ game'.moves = game.moves + 1

\* C33: in every move_snake step the direction used for the move is not
\* the opposite of the direction before the step; a buffered request for
\* the opposite direction is popped and discarded; at most one buffered
\* direction is consumed per step.
C33_NeverReverses ==
  [][UpdateMoved =>
       LET before == game.snake
           after  == game'.snake
           popped == direction_buffer_pop(before.input_buffer)
       IN  /\ after.direction # Opposite(before.direction)
           /\ after.segments[1] =
                NewHead(before.segments[1], after.direction)
           /\ after.input_buffer = popped.buffer
           /\ after.input_buffer.count \in
                { before.input_buffer.count,
                  before.input_buffer.count - 1 }
           /\ (popped.ret /\ popped.direction = Opposite(before.direction))
                => /\ after.direction = before.direction
                   /\ after.input_buffer.count =
                        before.input_buffer.count - 1
           /\ (popped.ret /\ popped.direction # Opposite(before.direction))
                => after.direction = popped.direction
           /\ ~popped.ret => after.direction = before.direction]_vars

\* a fresh game heading right had DIR_LEFT and a second request buffered;
\* the first update popped DIR_LEFT, kept heading right and left the second
\* request in the buffer
C33_Witness ==
  /\ unit.fn = "snake_game_update"
  /\ game.moves = 1
  /\ game.pushes = 2
  /\ game.snake.direction = "DIR_RIGHT"
  /\ game.snake.input_buffer.buffer[0] = "DIR_LEFT"
  /\ game.snake.input_buffer.tail = 1
  /\ game.snake.input_buffer.count = 1
  /\ game.snake.segments[1] = << 14, 6 >>


\* C34: snake_game_update is a no-op unless the state is GAME_RUNNING: in
\* GAME_INIT, GAME_PAUSED and GAME_OVER it leaves the snake, the direction
\* buffer, the food, score, level, speed and the display mirror unchanged;
\* snake_game_pause changes the state only from GAME_RUNNING and
\* snake_game_resume only from GAME_PAUSED, and neither changes anything
\* else.
C34_UpdateOnlyWhenRunning ==
  [][/\ (unit'.fn = "snake_game_update" /\ game.state # "GAME_RUNNING")
          => /\ game' = game
             /\ pixel_state' = pixel_state
             /\ level' = level
             /\ ~unit'.rendered
     /\ unit'.fn = "snake_game_pause"
          => /\ game' = IF game.state = "GAME_RUNNING"
                          THEN [game EXCEPT !.state = "GAME_PAUSED"]
                          ELSE game
             /\ pixel_state' = pixel_state
     /\ unit'.fn = "snake_game_resume"
          => /\ game' = IF game.state = "GAME_PAUSED"
                          THEN [game EXCEPT !.state = "GAME_RUNNING"]
                          ELSE game
             /\ pixel_state' = pixel_state]_vars

\* snake_game_update has been called on a paused game that has moved and
\* has a direction buffered
C34_Witness ==
  /\ unit.fn = "snake_game_update"
  /\ game.state = "GAME_PAUSED"
  /\ game.moves > MaxMoves - ProgressMoves
  /\ game.snake.input_buffer.count > 0
  /\ pixel_state = game.game_buffer


\* the cell one step from pos in the given direction, in unbounded integers
StepFrom(pos, direction) ==
  CASE direction = "DIR_UP" -> << pos[1], pos[2] - 1 >>
    [] direction = "DIR_DOWN" -> << pos[1], pos[2] + 1 >>
    [] direction = "DIR_LEFT" -> << pos[1] - 1, pos[2] >>
    [] direction = "DIR_RIGHT" -> << pos[1] + 1, pos[2] >>

\* C35: a snake_game_update in GAME_RUNNING moves to GAME_OVER exactly when
\* the moved head is outside the grid 0..27 x 0..12 (moving left from
\* x = 0 or up from y = 0 included) or on a segment that is still there
\* after the move; then score, level and length are unchanged and nothing
\* is rendered; a head that moves onto the cell the tail has just left
\* does not collide.
C35_GameOverOnCollision ==
  [][UpdateMoved =>
       LET snake  == game.snake
           target == StepFrom(snake.segments[1], game'.snake.direction)
           stays  == { snake.segments[i] : i \in 1..(snake.length - 1) }
           hit    == \/ target[1] \notin 0..27
                     \/ target[2] \notin 0..12
                     \/ target \in stays
       IN  /\ game'.state = IF hit THEN "GAME_OVER" ELSE "GAME_RUNNING"
           /\ hit => /\ game'.score = game.score
                     /\ game'.level = game.level
                     /\ game'.game_speed_ms = game.game_speed_ms
                     /\ game'.snake.length = snake.length
                     /\ game'.game_buffer = game.game_buffer
                     /\ pixel_state' = pixel_state
                     /\ level' = level
                     /\ ~unit'.rendered
           /\ ~hit => /\ unit'.rendered
                      /\ pixel_state' = game'.game_buffer
           /\ (target = snake.segments[snake.length] /\ target \notin stays)
                => game'.state = "GAME_RUNNING"]_vars

\* the snake at the left wall has moved left from x = 0: the head wrapped
\* to x = 255, the game is over and the display still shows the snake
\* where it was
C35_Witness ==
  /\ unit.fn = "snake_game_update"
  /\ ~unit.rendered
  /\ game.state = "GAME_OVER"
  /\ game.snake.segments[1] = << 255, 6 >>
  /\ game.snake.segments[2] = << 0, 6 >>
  /\ << 6, 0 >> \in pixel_state
  /\ game.score = 0


\* no snake_game_update is between its food test and its end
BetweenUpdates ==
  task.loop.pc \notin { "grow", "score", "level_up", "food", "food_store",
                        "render" }

\* C36: in every game state between updates the score is 10 times the
\* number of food items eaten since the last init or reset, the level is
\* 1 + score div 50 and game_speed_ms is max(100, 500 - 50 * (level - 1)),
\* so it lies in 100..500.
C36_ScoreLevelSpeed ==
  BetweenUpdates =>
    /\ game.score = 10 * game.eaten
    /\ game.level = 1 + (game.score \div 50)
    /\ game.game_speed_ms =
         IF 500 - 50 * (game.level - 1) > 100
           THEN 500 - 50 * (game.level - 1)
           ELSE 100
    /\ game.game_speed_ms \in 100..500


\* C37: the snake length always lies in SNAKE_INITIAL_LENGTH (3) ..
\* SNAKE_MAX_LENGTH (50); an update that eats food makes the snake one
\* segment longer when it is shorter than 50, the new last segment lying
\* where the tail was before the move, and leaves the length at 50
\* otherwise; an update that eats nothing leaves the length unchanged.
C37_LengthBounded ==
  /\ [](/\ game.snake.length \in 3..50
        /\ Len(game.snake.segments) = game.snake.length)
  /\ [][UpdateMoved =>
          LET snake == game.snake
              after == game'.snake
              ate   == /\ game'.state = "GAME_RUNNING"
                       /\ game.food.active
                       /\ game.food.position = after.segments[1]
          IN  /\ (ate /\ snake.length < 50)
                   => /\ after.length = snake.length + 1
                      /\ after.segments[after.length] =
                           snake.segments[snake.length]
                      /\ \A i \in 2..snake.length :
                           after.segments[i] = snake.segments[i - 1]
              /\ (ate /\ snake.length >= 50) => after.length = 50
              /\ ~ate => after.length = snake.length]_vars

\* a snake of 49 segments has eaten: it has 50 segments and the last one
\* lies where the tail was before the move
C37_Witness ==
  /\ unit.fn = "snake_game_update"
  /\ game.state = "GAME_RUNNING"
  /\ game.eaten = 47
  /\ game.moves = MaxMoves - ProgressMoves + 1
  /\ game.snake.length = 50
  /\ game.snake.segments[1] = << 14, 6 >>
  /\ game.snake.segments[50] = SerpentSegment(49)


\* the active food items of the game (FOOD_COUNT is 1)
ActiveFood == IF game.food.active THEN { game.food.position } ELSE {}

\* C38: a food item that snake_game_generate_food has activated lies
\* inside the grid (x in 0..27, y in 0..12), is not (0, 0) and is not on a
\* snake segment, on the random and on the fallback path; after every
\* completed snake_game_update that leaves the game GAME_RUNNING exactly
\* one food item is active and it is not on the snake.
C38_FoodOffSnake ==
  /\ \A p \in ActiveFood :
       /\ p[1] \in 0..27
       /\ p[2] \in 0..12
       /\ p # << 0, 0 >>
       /\ \A i \in 1..game.snake.length : game.snake.segments[i] # p
  /\ (/\ game.state = "GAME_RUNNING"
      /\ \/ task.loop.pc = "after_update"
         \/ unit.fn = "snake_game_update")
       => Cardinality(ActiveFood) = 1

============================================================================
